---- MODULE Spec2Model ----
(***************************************************************************)
(* Model of the ASCII sprite pipeline of ai_animation:                     *)
(*   - the frame normalizer fix_frame, in each of its copies               *)
(*     (generate_improved, generate_enemy, generate_robust,                *)
(*      generate_per_direction, test_single_frame_fixed);                  *)
(*   - the rasterizer ascii_to_image / hex_to_rgba and the sheet           *)
(*     compositor create_sprite_sheet (ascii_to_sprite.py,                 *)
(*     convert_single_frame.py);                                           *)
(*   - the generator scripts that ask a language model for frames:         *)
(*     generate_character_animation (mcp_server.py), generate_3_frames and *)
(*     generate_all_frames (generate_robust.py), generate_complete         *)
(*     (generate_improved.py), generate_all_frames (generate_openrouter.py)*)
(*     and generate_enemy (generate_enemy.py).                             *)
(* A Python str is a sequence of one-character strings, a list of str a    *)
(* sequence of such sequences.  A raised exception is the exception's name *)
(* in place of the returned value.                                         *)
(***************************************************************************)
EXTENDS Integers, Sequences, FiniteSets, TLC

VARIABLES
    raw,          \* the raw candidate frame handed to fix_frame (list of str)
    variant,      \* which copy of fix_frame ran ("none" before the call)
    target_size,  \* the target_size argument of the parameterised copies
    fixed,        \* what the call returned
    refixed,      \* what the same copy returned when given `fixed`
    exc,          \* the exception the last call raised, "none" if it returned
    npc,          \* "raw" -> "fixed" -> "refixed"
    frames,       \* animation_data["frames"]: a dict, as its list of items
    color_map,    \* animation_data["color_map"]: palette key -> hex string
    scale,        \* the scale argument
    image,        \* the image the rasterizer produced
    subject,      \* the item of `frames` convert_single_frame was given
    rexc,         \* the exception the rasterizer raised, "none" if none
    rpc,          \* "ready" -> "single" | "sheet"; "start" -> "cli_*"
    argv,         \* sys.argv of ascii_to_sprite.py, the script's name first
    saved,        \* the image files written, in the order they were saved
    program,      \* the generator script that runs, "none" if none does
    gpc,          \* where that script is
    response,     \* what the last request to the model came back with
    archetype,    \* generate_enemy's argument
    direction,    \* index of the direction loop, from 0
    phase,        \* index of the phase loop, from 0
    attempt,      \* generate_3_frames: iterations of the retry loop begun
    asked,        \* generate_3_frames: requests this call has issued
    trace,        \* the requests and sleeps of the run, in order
    faults,       \* requests of the run that came back without a frame
    frames3,      \* what the last call of generate_3_frames did
    all_frames,   \* the dict of named frames the run has built
    gout          \* what the script's function did: returned or raised

nvars == <<raw, variant, target_size, fixed, refixed, exc, npc>>

rvars == <<frames, color_map, scale, image, subject, rexc, rpc>>

mvars == <<argv, saved>>

gvars == <<program, gpc, response, archetype, direction, phase, attempt,
           asked, trace, faults, frames3, all_frames, gout>>

vars == <<nvars, rvars, mvars, gvars>>

(***************************************************************************)
(* Python primitives used by the normalizers.                              *)
(***************************************************************************)

Min(a, b) == IF a < b THEN a ELSE b

Max(a, b) == IF a > b THEN a ELSE b

\* c * n for a one-character str c: n copies, none when n <= 0.
PyRepeat(c, n) == [i \in 1..n |-> c]

\* s[:n]: the first n items; a negative n counts from the end.
PySliceTo(s, n) ==
    IF n >= 0 THEN SubSeq(s, 1, Min(n, Len(s)))
    ELSE SubSeq(s, 1, Max(0, Len(s) + n))

\* The characters str.rstrip() removes, among those of the model's alphabet.
PyWhitespace == {" ", "\t"}

RECURSIVE PyRstrip(_)
\* s.rstrip(): s without its trailing whitespace characters.
PyRstrip(s) ==
    IF s = <<>> \/ s[Len(s)] \notin PyWhitespace THEN s
    ELSE PyRstrip(SubSeq(s, 1, Len(s) - 1))

\* A list item that is not a str (JSON null): it has no rstrip and no len.
PyNone == <<"None">>

\* What a call does: return a value, or raise an exception.
Return(v) == [exc |-> "none", val |-> v]

Raise(e) == [exc |-> e, val |-> <<>>]

\* The literal 16 of the fixed-size copies.
FrameSize == 16

\* FRAME_SIZE, the target_size every call site passes (and its default).
FRAME_SIZE == 16

(***************************************************************************)
(* fix_frame, generate_improved.py: rstrip, then pad or truncate.          *)
(***************************************************************************)

\* The loop body: line.rstrip(), then pad with spaces or cut to 16.
fix_line_improved(line) ==
    LET s == PyRstrip(line)
    IN  IF Len(s) < FrameSize THEN s \o PyRepeat(" ", FrameSize - Len(s))
        ELSE PySliceTo(s, FrameSize)

\* A copy that keeps the last 16 lines instead of the first.
fix_frame_mut_keeplast(lines) ==
    IF lines = <<>> THEN Return(PyRepeat(PyRepeat(" ", FrameSize), FrameSize))
    ELSE
        LET kept == SubSeq(lines, Max(1, Len(lines) - FrameSize + 1), Len(lines))
        IN  IF \E i \in 1..Len(kept) : kept[i] = PyNone
            THEN Raise("AttributeError")
            ELSE
                LET fixed0 == [i \in 1..Len(kept) |-> fix_line_improved(kept[i])]
                IN  Return(fixed0 \o PyRepeat(PyRepeat(" ", FrameSize),
                                              FrameSize - Len(fixed0)))

fix_frame_improved(lines) ==
    IF lines = <<>> THEN Return(PyRepeat(PyRepeat(" ", FrameSize), FrameSize))
    ELSE
        LET kept == PySliceTo(lines, FrameSize)
        IN  IF \E i \in 1..Len(kept) : kept[i] = PyNone
            THEN Raise("AttributeError")   \* None has no rstrip
            ELSE
                LET fixed0 == [i \in 1..Len(kept) |-> fix_line_improved(kept[i])]
                IN  Return(fixed0 \o PyRepeat(PyRepeat(" ", FrameSize),
                                              FrameSize - Len(fixed0)))

(***************************************************************************)
(* fix_frame, generate_enemy.py: the same text on fewer lines.             *)
(***************************************************************************)

\* A copy that reads lines[0] before it looks at the length of the list.
fix_frame_mut_index0(lines) ==
    IF lines = <<>> THEN Raise("IndexError") ELSE fix_frame_improved(lines)

fix_frame_enemy(lines) ==
    IF lines = <<>> THEN Return(PyRepeat(PyRepeat(" ", FrameSize), FrameSize))
    ELSE
        LET kept == PySliceTo(lines, FrameSize)
        IN  IF \E i \in 1..Len(kept) : kept[i] = PyNone
            THEN Raise("AttributeError")
            ELSE
                LET fixed0 == [i \in 1..Len(kept) |->
                                 LET s == PyRstrip(kept[i])
                                 IN  IF Len(s) < FrameSize
                                     THEN s \o PyRepeat(" ", FrameSize - Len(s))
                                     ELSE PySliceTo(s, FrameSize)]
                IN  Return(fixed0 \o PyRepeat(PyRepeat(" ", FrameSize),
                                              FrameSize - Len(fixed0)))

(***************************************************************************)
(* fix_frame, generate_robust.py: no rstrip; every line is padded or cut,  *)
(* blank lines are appended, and the list is cut to 16 at the end.         *)
(***************************************************************************)

\* A width rule that pads on the left.
fix_line_mut_robust_padleft(line) ==
    IF Len(line) < FrameSize THEN PyRepeat(" ", FrameSize - Len(line)) \o line
    ELSE IF Len(line) > FrameSize THEN PySliceTo(line, FrameSize)
    ELSE line

fix_line_robust(line) ==
    IF Len(line) < FrameSize THEN line \o PyRepeat(" ", FrameSize - Len(line))
    ELSE IF Len(line) > FrameSize THEN PySliceTo(line, FrameSize)
    ELSE line

fix_frame_robust(frame_lines) ==
    IF \E i \in 1..Len(frame_lines) : frame_lines[i] = PyNone
    THEN Raise("TypeError")   \* len(None)
    ELSE
        LET fixed0 == [i \in 1..Len(frame_lines) |-> fix_line_robust(frame_lines[i])]
            padded == fixed0 \o PyRepeat(PyRepeat(" ", FrameSize),
                                         FrameSize - Len(fixed0))
        IN  Return(PySliceTo(padded, FrameSize))

(***************************************************************************)
(* fix_frame(frame_lines, target_size), generate_per_direction.py and      *)
(* test_single_frame_fixed.py: one size for both height and width.         *)
(***************************************************************************)

\* A width rule that cuts one character too many.
fix_line_mut_short(line, size) ==
    IF Len(line) < size THEN line \o PyRepeat(" ", size - Len(line))
    ELSE IF Len(line) > size THEN PySliceTo(line, size - 1)
    ELSE line

fix_line_per_direction(line, size) ==
    IF Len(line) < size THEN line \o PyRepeat(" ", size - Len(line))
    ELSE IF Len(line) > size THEN PySliceTo(line, size)
    ELSE line

\* A copy whose height is the fixed 16 whatever target_size is.
fix_frame_mut_height16(frame_lines, size) ==
    IF \E i \in 1..Len(frame_lines) : frame_lines[i] = PyNone
    THEN Raise("TypeError")
    ELSE
        LET fixed_lines == [i \in 1..Len(frame_lines) |->
                               fix_line_per_direction(frame_lines[i], size)]
            padded == fixed_lines \o PyRepeat(PyRepeat(" ", size),
                                              FRAME_SIZE - Len(fixed_lines))
        IN  Return(IF Len(padded) > FRAME_SIZE
                   THEN PySliceTo(padded, FRAME_SIZE) ELSE padded)

fix_frame_per_direction(frame_lines, size) ==
    IF \E i \in 1..Len(frame_lines) : frame_lines[i] = PyNone
    THEN Raise("TypeError")   \* len(None)
    ELSE
        LET fixed_lines == [i \in 1..Len(frame_lines) |->
                               fix_line_per_direction(frame_lines[i], size)]
            padded == fixed_lines \o PyRepeat(PyRepeat(" ", size),
                                              size - Len(fixed_lines))
        IN  Return(IF Len(padded) > size THEN PySliceTo(padded, size) ELSE padded)

fix_frame_test_single(frame_lines, size) ==
    IF \E i \in 1..Len(frame_lines) : frame_lines[i] = PyNone
    THEN Raise("TypeError")
    ELSE
        LET fixed_lines == [i \in 1..Len(frame_lines) |->
                               LET line == frame_lines[i]
                               IN  IF Len(line) < size
                                   THEN line \o PyRepeat(" ", size - Len(line))
                                   ELSE IF Len(line) > size
                                   THEN PySliceTo(line, size)
                                   ELSE line]
            padded == fixed_lines \o PyRepeat(PyRepeat(" ", size),
                                              size - Len(fixed_lines))
        IN  Return(IF Len(padded) > size THEN PySliceTo(padded, size) ELSE padded)

(***************************************************************************)
(* The normalization written inline in generate_standing_frame (and again  *)
(* in generate_walk_frame), generate_openrouter.py.                        *)
(***************************************************************************)

\* data["frame"] after `while len(frame) < 16: frame.append(" " * 16)`:
\* the list the response was decoded into, with the rows appended to it.
standing_frame_appended(frame) ==
    frame \o PyRepeat(PyRepeat(" ", 16), 16 - Len(frame))

\* Lines 89-106: the rows are appended, the first 16 kept, each padded or
\* cut to 16; an exception (len() of a non-string item) is caught and the
\* blank frame returned in its place.
generate_standing_frame(frame) ==
    LET kept == PySliceTo(standing_frame_appended(frame), 16)
    IN  IF \E i \in 1..Len(kept) : kept[i] = PyNone
        THEN Return(PyRepeat(PyRepeat(" ", 16), 16))
        ELSE Return([i \in 1..Len(kept) |->
                        IF Len(kept[i]) < 16
                        THEN kept[i] \o PyRepeat(" ", 16 - Len(kept[i]))
                        ELSE IF Len(kept[i]) > 16
                        THEN PySliceTo(kept[i], 16)
                        ELSE kept[i]])

\* The one element of a one-element set.  The({f(v) : v \in {e}}) is f(e)
\* with e computed once.
The(S) == CHOOSE x \in S : TRUE

(***************************************************************************)
(* hex_to_rgba, ascii_to_sprite.py and convert_single_frame.py (the two    *)
(* copies are the same text).                                              *)
(***************************************************************************)

HexUpper == <<"0", "1", "2", "3", "4", "5", "6", "7", "8", "9",
              "A", "B", "C", "D", "E", "F">>

HexLower == <<"0", "1", "2", "3", "4", "5", "6", "7", "8", "9",
              "a", "b", "c", "d", "e", "f">>

HexDigits == {HexUpper[i] : i \in 1..16} \cup {HexLower[i] : i \in 1..16}

HexValue(c) == CHOOSE v \in 0..15 : c = HexUpper[v + 1] \/ c = HexLower[v + 1]

RECURSIVE PyLstrip(_, _)
\* s.lstrip(c): s without any of its leading characters c.
PyLstrip(s, c) == IF s # <<>> /\ s[1] = c THEN PyLstrip(Tail(s), c) ELSE s

RECURSIVE PyLstripSpace(_)
PyLstripSpace(s) ==
    IF s # <<>> /\ s[1] \in PyWhitespace THEN PyLstripSpace(Tail(s)) ELSE s

RECURSIVE HexNumber(_)
\* The value of a non-empty run of hex digits.
HexNumber(ds) ==
    IF ds = <<>> THEN 0
    ELSE 16 * HexNumber(SubSeq(ds, 1, Len(ds) - 1)) + HexValue(ds[Len(ds)])

\* int(s, 16): surrounding whitespace and one sign are accepted; anything
\* but hex digits after that is a ValueError.
PyInt16(s) ==
    LET t      == PyRstrip(PyLstripSpace(s))
        signed == t # <<>> /\ t[1] \in {"+", "-"}
        ds     == IF signed THEN Tail(t) ELSE t
    IN  IF ds = <<>> \/ \E i \in 1..Len(ds) : ds[i] \notin HexDigits
        THEN [exc |-> "ValueError", val |-> 0]
        ELSE [exc |-> "none",
              val |-> IF signed /\ t[1] = "-" THEN 0 - HexNumber(ds)
                      ELSE HexNumber(ds)]

hex_to_rgba(hex_color) ==
    LET h == PyLstrip(hex_color, "#")
        r == PyInt16(SubSeq(h, 1, 2))
        g == PyInt16(SubSeq(h, 3, 4))
        b == PyInt16(SubSeq(h, 5, 6))
    IN  IF Len(h) = 8 THEN
            LET a == PyInt16(SubSeq(h, 7, 8))
            IN  IF r.exc # "none" \/ g.exc # "none" \/ b.exc # "none" \/ a.exc # "none"
                THEN Raise("ValueError")
                ELSE Return(<<r.val, g.val, b.val, a.val>>)
        ELSE IF Len(h) = 6 THEN
            IF r.exc # "none" \/ g.exc # "none" \/ b.exc # "none"
            THEN Raise("ValueError")
            ELSE Return(<<r.val, g.val, b.val, 255>>)
        ELSE Raise("ValueError")

(***************************************************************************)
(* Images.  An image is its size and its pixels, px[<<x, y>>] with the     *)
(* origin at the top left.                                                 *)
(***************************************************************************)

Transparent == <<0, 0, 0, 0>>

\* Image.new('RGBA', (w, h), (0, 0, 0, 0)).
ImageNew(w, h) ==
    [w |-> w, h |-> h, px |-> [p \in (0..(w - 1)) \X (0..(h - 1)) |-> Transparent]]

NoImage == ImageNew(0, 0)

\* A channel as the pixel store keeps it: clipped to 0..255.
Clip8(n) == IF n < 0 THEN 0 ELSE IF n > 255 THEN 255 ELSE n

StoredColor(c) == <<Clip8(c[1]), Clip8(c[2]), Clip8(c[3]), Clip8(c[4])>>

\* A resize that blends: a pixel on a block's edge is the mean of the two
\* source pixels next to it.
ResizeMutBlend(img, nw, nh) ==
    IF nw = img.w /\ nh = img.h THEN img
    ELSE [w |-> nw, h |-> nh,
          px |-> [p \in (0..(nw - 1)) \X (0..(nh - 1)) |->
                    LET sx == ((2 * p[1] + 1) * img.w) \div (2 * nw)
                        sy == ((2 * p[2] + 1) * img.h) \div (2 * nh)
                        nx == Min(sx + 1, img.w - 1)
                        a  == img.px[<<sx, sy>>]
                        b  == img.px[<<nx, sy>>]
                    IN  IF ((p[1] + 1) * img.w) % nw = 0
                        THEN [k \in 1..4 |-> (a[k] + b[k]) \div 2]
                        ELSE a]]

\* img.resize((nw, nh), Image.NEAREST): each pixel of the result is the
\* source pixel under its centre; the same size gives a copy.
ResizeNearest(img, nw, nh) ==
    IF nw = img.w /\ nh = img.h THEN img
    ELSE [w |-> nw, h |-> nh,
          px |-> [p \in (0..(nw - 1)) \X (0..(nh - 1)) |->
                    img.px[<<((2 * p[1] + 1) * img.w) \div (2 * nw),
                             ((2 * p[2] + 1) * img.h) \div (2 * nh)>>]]]

\* A paste that takes the offset as (row, column) instead of (x, y).
PasteMutTransposed(sheet, img, x0, y0) ==
    [sheet EXCEPT !.px =
        [p \in DOMAIN sheet.px |->
            IF /\ p[1] - y0 \in 0..(img.w - 1)
               /\ p[2] - x0 \in 0..(img.h - 1)
            THEN img.px[<<p[1] - y0, p[2] - x0>>]
            ELSE sheet.px[p]]]

\* sheet.paste(img, (x0, y0)): img's pixels overwrite the sheet's, cut to
\* the sheet.
Paste(sheet, img, x0, y0) ==
    [sheet EXCEPT !.px =
        [p \in DOMAIN sheet.px |->
            IF /\ p[1] - x0 \in 0..(img.w - 1)
               /\ p[2] - y0 \in 0..(img.h - 1)
            THEN img.px[<<p[1] - x0, p[2] - y0>>]
            ELSE sheet.px[p]]]

(***************************************************************************)
(* ascii_to_image, ascii_to_sprite.py.                                     *)
(***************************************************************************)

\* What the loop body does at column x (from 0) of a line, in an image
\* `width` wide: the exception it raises, "none" if it stores a pixel.
CellExc(char, x, width, cmap) ==
    IF char \in DOMAIN cmap /\ hex_to_rgba(cmap[char]).exc # "none"
    THEN "ValueError"
    ELSE IF x >= width THEN "IndexError"   \* pixels[x, y] outside the image
    ELSE "none"

\* The colour the loop body stores for a character.
CellColorMutOpaque(char, cmap) ==
    IF char \in DOMAIN cmap THEN StoredColor(hex_to_rgba(cmap[char]).val)
    ELSE <<0, 0, 0, 255>>

CellColor(char, cmap) ==
    IF char \in DOMAIN cmap THEN StoredColor(hex_to_rgba(cmap[char]).val)
    ELSE Transparent

\* The exception the inner loop raises on one line, "none" if it stores
\* every pixel of the line: that of the first column whose body raises.
LineExc(line, width, cmap) ==
    The({IF bad = {} THEN "none"
         ELSE The({CellExc(line[x + 1], x, width, cmap) :
                      x \in {c \in bad : \A d \in bad : c <= d}}) :
            bad \in {{x \in 0..(Len(line) - 1) :
                        CellExc(line[x + 1], x, width, cmap) # "none"}}})

ascii_to_image(ascii_lines, cmap) ==
    LET height == Len(ascii_lines)
        width  == IF ascii_lines # <<>> THEN Len(ascii_lines[1]) ELSE 0
    IN  \* excs[y]: what line y raises; raising: the lines that raise
        The({IF raising # {}
             THEN Raise(The({excs[y] : y \in {c \in raising : \A d \in raising : c <= d}}))
             ELSE Return([w |-> width, h |-> height,
                          px |-> [p \in (0..(width - 1)) \X (0..(height - 1)) |->
                                    IF p[1] < Len(ascii_lines[p[2] + 1])
                                    THEN CellColor(ascii_lines[p[2] + 1][p[1] + 1], cmap)
                                    ELSE Transparent]]) :
                <<excs, raising>> \in
                    {<<e, {y \in 1..height : e[y] # "none"}>> :
                        e \in {[y \in 1..height |-> LineExc(ascii_lines[y], width, cmap)]}}})

(***************************************************************************)
(* ascii_to_image with scale, convert_single_frame.py.                     *)
(***************************************************************************)

ascii_to_image_scaled(ascii_lines, cmap, s) ==
    The({IF img.exc # "none" THEN img
         ELSE IF s > 1
         THEN Return(ResizeNearest(img.val, img.val.w * s, img.val.h * s))
         ELSE img :
            img \in {ascii_to_image(ascii_lines, cmap)}})

(***************************************************************************)
(* create_sprite_sheet, ascii_to_sprite.py.                                *)
(***************************************************************************)

\* A compositor given the 2 x 2 layout [[a, b], [c, empty]] by its caller.
frame_layout_mut_2x2 ==
    << <<"walk_down_0", "walk_down_1">>,
       <<"walk_up_0",   "">> >>

\* A layout with the idle row in the order down, left, right, up.
frame_layout_mut_idle_order ==
    << <<"walk_down_0",  "walk_down_1",  "walk_down_2",  "walk_down_3">>,
       <<"walk_up_0",    "walk_up_1",    "walk_up_2",    "walk_up_3">>,
       <<"walk_left_0",  "walk_left_1",  "walk_left_2",  "walk_left_3">>,
       <<"walk_right_0", "walk_right_1", "walk_right_2", "walk_right_3">>,
       <<"idle_down_0",  "idle_left_0",  "idle_right_0", "idle_up_0">> >>

frame_layout ==
    << <<"walk_down_0",  "walk_down_1",  "walk_down_2",  "walk_down_3">>,
       <<"walk_up_0",    "walk_up_1",    "walk_up_2",    "walk_up_3">>,
       <<"walk_left_0",  "walk_left_1",  "walk_left_2",  "walk_left_3">>,
       <<"walk_right_0", "walk_right_1", "walk_right_2", "walk_right_3">>,
       <<"idle_down_0",  "idle_up_0",    "idle_left_0",  "idle_right_0">> >>

\* cols = 4
SheetCols == 4

\* frame_name in frames
HasFrame(fs, name) == \E k \in 1..Len(fs) : fs[k].name = name

\* A lookup by position: the first frame of the dict, whatever the name.
GetFrameMutFirstItem(fs, name) == fs[1].lines

\* frames[frame_name]
GetFrame(fs, name) == fs[CHOOSE k \in 1..Len(fs) : fs[k].name = name].lines

\* The slots of the layout, in the order the two loops visit them, that
\* name a frame of the dict: <<row_idx, col_idx>>, from 0.
RECURSIVE PlacedSlots(_, _)
PlacedSlots(fs, n) ==
    IF n = 0 THEN <<>>
    ELSE
        LET row_idx == (n - 1) \div Len(frame_layout[1])
            col_idx == (n - 1) % Len(frame_layout[1])
            rest    == PlacedSlots(fs, n - 1)
        IN  IF HasFrame(fs, frame_layout[row_idx + 1][col_idx + 1])
            THEN Append(rest, <<row_idx, col_idx>>)
            ELSE rest

\* A copy that forgets the scale in the offsets.
PasteOffsetMutUnscaled(slot, frame_width, frame_height, s) ==
    <<slot[2] * frame_width, slot[1] * frame_height>>

\* x = col_idx * frame_width * scale, y = row_idx * frame_height * scale,
\* for the slot <<row_idx, col_idx>>.
PasteOffset(slot, frame_width, frame_height, s) ==
    <<slot[2] * frame_width * s, slot[1] * frame_height * s>>

RECURSIVE PlaceFrames(_, _, _, _, _, _, _)
\* The body of the placing loops run over the first n placed slots: the
\* sheet so far, or the exception ascii_to_image raised.
PlaceFrames(fs, cmap, s, frame_width, frame_height, slots, n) ==
    IF n = 0
    THEN Return(ImageNew(SheetCols * frame_width * s,
                         Len(frame_layout) * frame_height * s))
    ELSE
        The({IF before.exc # "none" THEN before
             ELSE IF img.exc # "none" THEN img
             ELSE Return(Paste(before.val,
                               IF s > 1
                               THEN ResizeNearest(img.val, frame_width * s,
                                                  frame_height * s)
                               ELSE img.val,
                               PasteOffset(slots[n], frame_width, frame_height, s)[1],
                               PasteOffset(slots[n], frame_width, frame_height, s)[2])) :
                <<before, img>> \in
                    {PlaceFrames(fs, cmap, s, frame_width, frame_height, slots, n - 1)}
                    \X {ascii_to_image(
                           GetFrame(fs, frame_layout[slots[n][1] + 1][slots[n][2] + 1]),
                           cmap)}})

\* A copy that sizes the sheet by the number of frames in the dict.
create_sprite_sheet_mut_cols(fs, cmap, s) ==
    IF fs = <<>> THEN Raise("StopIteration")
    ELSE
        LET first_frame  == fs[1].lines
            frame_height == Len(first_frame)
            frame_width  == IF first_frame # <<>> THEN Len(first_frame[1]) ELSE 0
        IN  Return(ImageNew(Len(fs) * frame_width * s,
                            Len(frame_layout) * frame_height * s))

create_sprite_sheet(fs, cmap, s) ==
    IF fs = <<>> THEN Raise("StopIteration")   \* next(iter({}.values()))
    ELSE
        LET first_frame  == fs[1].lines
            frame_height == Len(first_frame)
            frame_width  == IF first_frame # <<>> THEN Len(first_frame[1]) ELSE 0
        IN  The({PlaceFrames(fs, cmap, s, frame_width, frame_height, slots, Len(slots)) :
                    slots \in {PlacedSlots(fs, Len(frame_layout) * Len(frame_layout[1]))}})

(***************************************************************************)
(* The raw frames the model hands to the normalizers.                      *)
(***************************************************************************)

\* Longest run of free characters in the middle of a line.
MaxTail == 2

\* Largest target_size tried besides FRAME_SIZE.
MaxTarget == 2

Alphabet == {"@", " ", "\t"}

SeqsUpTo(S, n) == UNION {[1..k -> S] : k \in 0..n}

\* A line: a run of ink, free characters, then at most one more ink.
Lines ==
    {PyRepeat("@", k) \o mid \o PyRepeat("@", j) :
        k \in {0, FrameSize - 2, FrameSize - 1},
        mid \in SeqsUpTo(Alphabet, MaxTail),
        j \in {0, 1}}

FillerLine == <<"@", " ", "\t", "@">>

\* A raw frame: filler lines, then at most one free item (a line, or None).
RawFrames ==
    {PyRepeat(FillerLine, m) \o extra :
        m \in {0, FrameSize - 1, FrameSize},
        extra \in {<<>>} \cup {<<l>> : l \in Lines \cup {PyNone}}}

TargetSizes == (1..MaxTarget) \cup {FRAME_SIZE}

\* The copy `v` of fix_frame applied to `lines`.
Apply(v, lines, size) ==
    CASE v = "improved"      -> fix_frame_improved(lines)
      [] v = "enemy"         -> fix_frame_enemy(lines)
      [] v = "robust"        -> fix_frame_robust(lines)
      [] v = "per_direction" -> fix_frame_per_direction(lines, size)
      [] v = "test_single"   -> fix_frame_test_single(lines, size)
      [] v = "openrouter"    -> generate_standing_frame(lines)

NInit ==
    /\ raw \in RawFrames
    /\ variant = "none"
    /\ target_size = FRAME_SIZE
    /\ fixed = <<>>
    /\ refixed = <<>>
    /\ exc = "none"
    /\ npc = "raw"

\* One call of the copy `v`: its result, or its exception.
Call(v, size) ==
    LET r == Apply(v, raw, size)
    IN  /\ variant' = v
        /\ target_size' = size
        /\ fixed' = r.val
        /\ exc' = r.exc
        /\ npc' = "fixed"
        /\ UNCHANGED <<raw, refixed, rvars, mvars, gvars>>

\* base = fix_frame(data["base_frame"]), generate_improved.py:152.
FixImproved ==
    /\ npc = "raw"
    /\ Call("improved", FRAME_SIZE)

\* fix_frame(data["frames"]["idle"]), generate_enemy.py:241.
FixEnemy ==
    /\ npc = "raw"
    /\ Call("enemy", FRAME_SIZE)

\* fix_frame(data["f0"]), generate_robust.py:146.
FixRobust ==
    /\ npc = "raw"
    /\ Call("robust", FRAME_SIZE)

\* fix_frame(data[key], FRAME_SIZE), generate_per_direction.py:112; the
\* function itself takes any target_size.
FixPerDirection ==
    /\ npc = "raw"
    /\ \E size \in TargetSizes : Call("per_direction", size)

\* fix_frame(frame_data["frame"], FRAME_SIZE), test_single_frame_fixed.py:140.
FixTestSingle ==
    /\ npc = "raw"
    /\ \E size \in TargetSizes : Call("test_single", size)

\* The inline normalization of generate_standing_frame on data["frame"],
\* generate_openrouter.py:89-102: it appends to the list it was given.
FixOpenrouter ==
    /\ npc = "raw"
    /\ \E r \in {generate_standing_frame(raw)} :
        /\ fixed' = r.val
        /\ exc' = r.exc
    /\ raw' = standing_frame_appended(raw)
    /\ variant' = "openrouter"
    /\ target_size' = FRAME_SIZE
    /\ npc' = "fixed"
    /\ UNCHANGED <<refixed, rvars, mvars, gvars>>

\* The same copy called again on the frame it returned.
Renormalize ==
    /\ npc = "fixed"
    /\ exc = "none"
    /\ LET r == Apply(variant, fixed, target_size)
       IN  /\ refixed' = r.val
           /\ exc' = r.exc
    /\ npc' = "refixed"
    /\ UNCHANGED <<raw, variant, target_size, fixed, rvars, mvars, gvars>>

NNext ==
    \/ FixImproved
    \/ FixEnemy
    \/ FixRobust
    \/ FixPerDirection
    \/ FixTestSingle
    \/ FixOpenrouter
    \/ Renormalize

(***************************************************************************)
(* The animation data the model hands to the rasterizer.                   *)
(***************************************************************************)

\* Largest height and width of a frame.
MaxSide == 2

\* Largest scale.
MaxScale == 2

FrameChars == <<"@", " ", "X">>

\* The h x w frame whose cells run through FrameChars from `seed`.
PatternFrame(h, w, seed) ==
    [i \in 1..h |-> [j \in 1..w |->
        FrameChars[(((i - 1) * w + (j - 1) + seed) % Len(FrameChars)) + 1]]]

CanonicalFrames ==
    {PatternFrame(h, w, seed) : h \in 1..MaxSide, w \in 1..MaxSide, seed \in {0, 1}}

\* Frames no normalizer produced: a line longer, or shorter, than the first.
RaggedFrames == { << <<"@">>, <<"@", "X">> >>, << <<"@", " ">>, <<"X">> >> }

HexStrings ==
    { <<"#", "F", "F", "0", "0", "0", "0">>,                   \* #FF0000
      <<"#", "0", "0", "0", "0", "0", "0", "0", "0">>,         \* #00000000
      <<"0", "0", "f", "f", "0", "0", "8", "0">>,              \* 00ff0080
      <<"#", "#", "0", "0", "0", "0", "F", "F">>,              \* ##0000FF
      <<"#", "F", "F", "F">>,                                  \* #FFF
      <<"#", "G", "G", "0", "0", "0", "0">>,                   \* #GG0000
      <<"#", "-", "1", "-", "1", "-", "1">> }                  \* #-1-1-1

\* A dict's items as a function from its keys.
MapOf(keys, vals) == [c \in {keys[i] : i \in 1..Len(keys)} |->
                        vals[CHOOSE i \in 1..Len(keys) : keys[i] = c]]

ColorMaps ==
    {MapOf(<<>>, <<>>)}
    \cup {MapOf(<<"@">>, <<v>>) : v \in HexStrings}
    \cup {MapOf(<<"@", " ">>, <<v, <<"#", "0", "0", "0", "0", "0", "0", "0", "0">> >>) :
             v \in HexStrings}

\* Names of the layout (two neighbours in a row, two in a column, the last
\* slot) and one name the layout does not have.
FrameNames == {"walk_down_0", "walk_down_1", "walk_up_0", "idle_right_0", "extra_0"}

\* The second frame of a two-frame dict: one of the first frame's shape,
\* the smallest and the largest frame, or a ragged one.
SecondFrames(f1) ==
    {PatternFrame(Len(f1), Len(f1[1]), 2), PatternFrame(1, 1, 0),
     PatternFrame(MaxSide, MaxSide, 0)} \cup RaggedFrames

\* Dicts whose first frame, the one the sheet is sized by, is the smallest
\* and sits in the slot after that of a larger frame.
MixedDicts ==
    {<<[name |-> "walk_down_1", lines |-> PatternFrame(1, 1, 0)],
       [name |-> "walk_down_0", lines |-> PatternFrame(MaxSide, MaxSide, seed)]>> :
        seed \in {0, 1}}

\* The dicts: empty, one frame, or two frames under two different names.
FrameDicts ==
    {<<>>}
    \cup MixedDicts
    \cup {<<[name |-> n, lines |-> f]>> : n \in FrameNames,
                                          f \in CanonicalFrames \cup RaggedFrames}
    \cup UNION {{<<[name |-> n1, lines |-> f1], [name |-> n2, lines |-> f2]>> :
                    n1 \in {"walk_down_0", "extra_0"},
                    n2 \in {"walk_down_1", "walk_up_0"},
                    f2 \in SecondFrames(f1)} : f1 \in CanonicalFrames}

RInit ==
    /\ frames \in FrameDicts
    /\ color_map \in ColorMaps
    /\ scale \in 1..MaxScale
    /\ image = NoImage
    /\ subject = 0
    /\ rexc = "none"
    /\ rpc = "ready"

\* The rasterizer's variables while the normalizer runs.
RIdle ==
    /\ frames = <<>>
    /\ color_map = MapOf(<<>>, <<>>)
    /\ scale = 1
    /\ image = NoImage
    /\ subject = 0
    /\ rexc = "none"
    /\ rpc = "idle"

\* The normalizer's variables while the rasterizer runs.
NIdle ==
    /\ raw = <<>>
    /\ variant = "none"
    /\ target_size = FRAME_SIZE
    /\ fixed = <<>>
    /\ refixed = <<>>
    /\ exc = "none"
    /\ npc = "idle"

\* img = ascii_to_image(data["frame"], data["color_map"], scale),
\* convert_single_frame.py:66, on one frame of the data.
ConvertSingleFrame ==
    /\ rpc = "ready"
    /\ \E k \in 1..Len(frames) :
        \E r \in {ascii_to_image_scaled(frames[k].lines, color_map, scale)} :
            /\ subject' = k
            /\ rexc' = r.exc
            /\ image' = IF r.exc = "none" THEN r.val ELSE NoImage
    /\ rpc' = "single"
    /\ UNCHANGED <<frames, color_map, scale, nvars, mvars, gvars>>

\* create_sprite_sheet(animation_data, output_file, scale),
\* ascii_to_sprite.py:169.
CreateSpriteSheet ==
    /\ rpc = "ready"
    /\ \E r \in {create_sprite_sheet(frames, color_map, scale)} :
        /\ rexc' = r.exc
        /\ image' = IF r.exc = "none" THEN r.val ELSE NoImage
    /\ subject' = 0
    /\ rpc' = "sheet"
    /\ UNCHANGED <<frames, color_map, scale, nvars, mvars, gvars>>

RNext ==
    \/ ConvertSingleFrame
    \/ CreateSpriteSheet

(***************************************************************************)
(* The command line of ascii_to_sprite.py: create_individual_frames and    *)
(* main.                                                                   *)
(***************************************************************************)

DecDigits == <<"0", "1", "2", "3", "4", "5", "6", "7", "8", "9">>

DecValue(c) == CHOOSE v \in 0..9 : c = DecDigits[v + 1]

RECURSIVE DecNumber(_)
\* The value of a run of decimal digits.
DecNumber(ds) ==
    IF ds = <<>> THEN 0
    ELSE 10 * DecNumber(SubSeq(ds, 1, Len(ds) - 1)) + DecValue(ds[Len(ds)])

\* int(s): surrounding whitespace and one sign are accepted; anything but
\* decimal digits after that is a ValueError.
PyInt10(s) ==
    LET t      == PyRstrip(PyLstripSpace(s))
        signed == t # <<>> /\ t[1] \in {"+", "-"}
        ds     == IF signed THEN Tail(t) ELSE t
    IN  IF ds = <<>> \/ \E i \in 1..Len(ds) : \A v \in 1..10 : ds[i] # DecDigits[v]
        THEN [exc |-> "ValueError", val |-> 0]
        ELSE [exc |-> "none",
              val |-> IF signed /\ t[1] = "-" THEN 0 - DecNumber(ds)
                      ELSE DecNumber(ds)]

\* The argument "--frames".
FramesFlag == <<"-", "-", "f", "r", "a", "m", "e", "s">>

RECURSIVE create_individual_frames(_, _, _, _)
\* The loop of create_individual_frames over the first n items of the dict:
\* the files saved so far, and the exception that ended the loop, if any.
create_individual_frames(fs, cmap, s, n) ==
    IF n = 0 THEN [exc |-> "none", val |-> <<>>]
    ELSE
        The({IF before.exc # "none" THEN before
             ELSE IF img.exc # "none" THEN [exc |-> img.exc, val |-> before.val]
             ELSE [exc |-> "none",
                   val |-> Append(before.val,
                                  [name  |-> fs[n].name,
                                   image |-> IF s > 1
                                             THEN ResizeNearest(img.val, img.val.w * s,
                                                                img.val.h * s)
                                             ELSE img.val])] :
                <<before, img>> \in
                    {create_individual_frames(fs, cmap, s, n - 1)}
                    \X {ascii_to_image(fs[n].lines, cmap)}})

\* scale = int(sys.argv[3]) if len(sys.argv) > 3 else 1, line 156: read
\* before the output mode is looked at.
main_scale(args) ==
    IF Len(args) > 3 THEN PyInt10(args[4]) ELSE [exc |-> "none", val |-> 1]

\* scale = int(sys.argv[4]) if len(sys.argv) > 4 else 1, line 165.
main_frames_scale(args) ==
    IF Len(args) > 4 THEN PyInt10(args[5]) ELSE [exc |-> "none", val |-> 1]

\* Largest scale given on the command line.
MaxCliScale == 2

\* Arguments: a file name, a directory, scales, and a word that is no number.
InputFile == <<"a", ".", "j">>

OutputFile == <<"s", ".", "p">>

OutputDir == <<".", "/", "f">>

ScaleArgs == {<<DecDigits[s + 1]>> : s \in 1..MaxCliScale}

ArgLists ==
    {<<InputFile>>, <<InputFile, InputFile>>,
     <<InputFile, InputFile, OutputFile>>,
     <<InputFile, InputFile, FramesFlag>>,
     <<InputFile, InputFile, FramesFlag, OutputDir>>,
     <<InputFile, InputFile, OutputFile, OutputDir>>}
    \cup {<<InputFile, InputFile, OutputFile, s>> : s \in ScaleArgs}
    \cup {<<InputFile, InputFile, FramesFlag, OutputDir, s>> : s \in ScaleArgs}
    \cup {<<InputFile, InputFile, FramesFlag, s, s>> : s \in ScaleArgs}

\* The colour tables main is run with.
MainColorMaps == {MapOf(<<>>, <<>>)} \cup {MapOf(<<"@">>, <<v>>) : v \in HexStrings}

MInit ==
    /\ frames \in FrameDicts
    /\ color_map \in MainColorMaps
    /\ scale = 1
    /\ image = NoImage
    /\ subject = 0
    /\ rexc = "none"
    /\ rpc = "start"
    /\ argv \in ArgLists
    /\ saved = <<>>

\* The command line's variables while the functions are called directly.
MIdle ==
    /\ argv = <<>>
    /\ saved = <<>>

\* main with fewer than two arguments: the usage text and sys.exit(1).
MainUsage ==
    /\ rpc = "start"
    /\ Len(argv) < 3
    /\ rexc' = "SystemExit"
    /\ rpc' = "cli_usage"
    /\ UNCHANGED <<frames, color_map, scale, image, subject, argv, saved, nvars, gvars>>

\* main with sys.argv[2] == "--frames": lines 155-166.
MainFrames ==
    /\ rpc = "start"
    /\ Len(argv) >= 3
    /\ argv[3] = FramesFlag
    /\ \E first \in {main_scale(argv)} :
        IF first.exc # "none"
        THEN /\ rexc' = first.exc
             /\ UNCHANGED <<scale, saved>>
        ELSE \E second \in {main_frames_scale(argv)} :
            IF second.exc # "none"
            THEN /\ rexc' = second.exc
                 /\ scale' = first.val
                 /\ UNCHANGED saved
            ELSE \E r \in {create_individual_frames(frames, color_map, second.val,
                                                    Len(frames))} :
                /\ rexc' = r.exc
                /\ scale' = second.val
                /\ saved' = r.val
    /\ rpc' = "cli_frames"
    /\ UNCHANGED <<frames, color_map, image, subject, argv, nvars, gvars>>

\* main with any other sys.argv[2]: lines 155-160 and 167-169.
MainSheet ==
    /\ rpc = "start"
    /\ Len(argv) >= 3
    /\ argv[3] # FramesFlag
    /\ \E first \in {main_scale(argv)} :
        IF first.exc # "none"
        THEN /\ rexc' = first.exc
             /\ UNCHANGED <<scale, image, saved>>
        ELSE \E r \in {create_sprite_sheet(frames, color_map, first.val)} :
            /\ rexc' = r.exc
            /\ scale' = first.val
            /\ image' = IF r.exc = "none" THEN r.val ELSE NoImage
            /\ saved' = IF r.exc = "none"
                        THEN <<[name |-> "sprite_sheet", image |-> r.val]>>
                        ELSE <<>>
    /\ rpc' = "cli_sheet"
    /\ UNCHANGED <<frames, color_map, subject, argv, nvars, gvars>>

MNext ==
    \/ MainUsage
    \/ MainFrames
    \/ MainSheet

(***************************************************************************)
(* The generator scripts.  A response of the model is kept as what it      *)
(* parses to: its JSON kind, the keys of the top-level object (the items   *)
(* of an array, the words of a string), and the named lists it holds as    *)
(* items [name, lines].                                                    *)
(***************************************************************************)

\* A JSON number where a character was expected.
JsonNumber == "number"

\* A parsed response.
Response(kind, members, frames_is_dict, fs) ==
    [kind |-> kind, members |-> members, frames_is_dict |-> frames_is_dict,
     frames |-> fs]

\* No response yet.
NoResponse == Response("none", <<>>, FALSE, <<>>)

\* `key in data` for an object (its keys), an array (its items) or a string
\* (its substrings).
InData(key, data) == \E k \in 1..Len(data.members) : data.members[k] = key

\* A call that has not ended.
Pending == [exc |-> "pending", val |-> <<>>]

\* No generator script runs.
GIdle ==
    /\ program = "none"
    /\ gpc = "idle"
    /\ response = NoResponse
    /\ archetype = ""
    /\ direction = 0
    /\ phase = 0
    /\ attempt = 0
    /\ asked = 0
    /\ trace = <<>>
    /\ faults = 0
    /\ frames3 = Pending
    /\ all_frames = <<>>
    /\ gout = Pending

(***************************************************************************)
(* generate_character_animation, mcp_server.py.                            *)
(***************************************************************************)

\* A table that asks for three walk frames a direction.
REQUIRED_FRAMES_mut_walk3 ==
    << <<"idle_down", 1>>, <<"idle_up", 1>>, <<"idle_left", 1>>,
       <<"idle_right", 1>>, <<"walk_down", 3>>, <<"walk_up", 3>>,
       <<"walk_left", 3>>, <<"walk_right", 3>> >>

\* REQUIRED_FRAMES: animation name -> number of frames, in the dict's order.
REQUIRED_FRAMES ==
    << <<"idle_down", 1>>, <<"idle_up", 1>>, <<"idle_left", 1>>,
       <<"idle_right", 1>>, <<"walk_down", 4>>, <<"walk_up", 4>>,
       <<"walk_left", 4>>, <<"walk_right", 4>> >>

\* expected_frames: f"{anim_name}_{i}" for i in range(count), in order.
RECURSIVE ExpectedFrom(_, _)
ExpectedFrom(k, i) ==
    IF k > Len(REQUIRED_FRAMES) THEN <<>>
    ELSE IF i >= REQUIRED_FRAMES[k][2] THEN ExpectedFrom(k + 1, 0)
    ELSE <<REQUIRED_FRAMES[k][1] \o "_" \o ToString(i)>> \o ExpectedFrom(k, i + 1)

expected_frames == ExpectedFrom(1, 0)

\* set(expected_frames) - set(animation_data["frames"].keys())
missing_frames(fs) ==
    {expected_frames[k] : k \in 1..Len(expected_frames)} \
        {fs[k].name : k \in 1..Len(fs)}

\* The dimension checks on one frame: "ok", the ValueError they raise, or
\* the TypeError of len(None).
CheckDimensions(lines) ==
    IF Len(lines) # FRAME_SIZE THEN "ValueError"
    ELSE IF \E i \in 1..Len(lines) :
                /\ \A j \in 1..(i - 1) : lines[j] # PyNone /\ Len(lines[j]) = FRAME_SIZE
                /\ lines[i] = PyNone
         THEN "TypeError"
    ELSE IF \E i \in 1..Len(lines) : Len(lines[i]) # FRAME_SIZE THEN "ValueError"
    ELSE "ok"

\* The call, given what the model answered: every failure leaves the
\* function as a ValueError.
generate_character_animation(data) ==
    IF data.kind = "failed" THEN Raise("ValueError")       \* call_ollama raised
    ELSE IF data.kind = "not_json" THEN Raise("ValueError")  \* JSONDecodeError
    ELSE IF data.kind = "number" THEN Raise("ValueError")  \* `in` on an int
    ELSE IF ~InData("color_map", data) \/ ~InData("frames", data)
    THEN Raise("ValueError")
    \* animation_data["frames"] of an array or a string; .keys() of a value
    \* that is no dict
    ELSE IF data.kind # "object" \/ ~data.frames_is_dict THEN Raise("ValueError")
    ELSE IF missing_frames(data.frames) # {} THEN Raise("ValueError")
    ELSE IF \E k \in 1..Len(data.frames) :
                CheckDimensions(data.frames[k].lines) # "ok"
    THEN Raise("ValueError")                  \* also the TypeError, wrapped
    ELSE Return(data)

(***************************************************************************)
(* The answers the model hands to generate_character_animation.            *)
(***************************************************************************)

\* A 16 x 16 frame.
GoodFrame == PyRepeat(PyRepeat("@", FRAME_SIZE), FRAME_SIZE)

FrameShapes == {"good", "short", "tall", "narrow_line", "wide_line",
                "null_line", "number_line", "empty"}

\* A frame of the given shape.
ShapedFrame(shape) ==
    CASE shape = "good"        -> GoodFrame
      [] shape = "short"       -> PyRepeat(PyRepeat("@", FRAME_SIZE), FRAME_SIZE - 1)
      [] shape = "tall"        -> PyRepeat(PyRepeat("@", FRAME_SIZE), FRAME_SIZE + 1)
      [] shape = "narrow_line" -> [GoodFrame EXCEPT ![3] = PyRepeat("@", FRAME_SIZE - 1)]
      [] shape = "wide_line"   -> [GoodFrame EXCEPT ![FRAME_SIZE] = PyRepeat("@", FRAME_SIZE + 1)]
      [] shape = "null_line"   -> [GoodFrame EXCEPT ![2] = PyNone]
      [] shape = "number_line" -> [GoodFrame EXCEPT ![1] = PyRepeat(JsonNumber, FRAME_SIZE)]
      [] shape = "empty"       -> <<>>

\* A list of names without one of them.
RECURSIVE Without(_, _)
Without(names, name) ==
    IF names = <<>> THEN <<>>
    ELSE IF names[1] = name THEN Without(Tail(names), name)
    ELSE <<names[1]>> \o Without(Tail(names), name)

\* A frames object: the required frames but `missing`, the frame `odd` of
\* shape `shape`, and a frame "attack_0" of shape `extra` unless "absent".
McpFrames(missing, odd, shape, extra) ==
    LET names == Without(expected_frames, missing)
    IN  [k \in 1..Len(names) |->
            [name |-> names[k],
             lines |-> IF names[k] = odd THEN ShapedFrame(shape) ELSE GoodFrame]]
        \o (IF extra = "absent" THEN <<>>
            ELSE <<[name |-> "attack_0", lines |-> ShapedFrame(extra)]>>)

McpMembers == {<<"color_map", "frames">>, <<"frames">>, <<"color_map">>, <<>>}

McpResponses ==
    {Response(kind, <<>>, FALSE, <<>>) : kind \in {"failed", "not_json", "number"}}
    \cup {Response(kind, m, FALSE, <<>>) : kind \in {"array", "string"}, m \in McpMembers}
    \cup {Response("object", m, FALSE, <<>>) : m \in McpMembers}
    \cup {Response("object", <<"color_map", "frames">>, TRUE,
                   McpFrames(missing, odd, shape, extra)) :
             missing \in {"", "idle_down_0", "walk_up_2", "walk_right_3"},
             odd \in {"idle_up_0", "walk_left_3"},
             shape \in FrameShapes,
             extra \in FrameShapes \cup {"absent"}}
    \cup {Response("object", <<"color_map", "frames">>, TRUE, <<>>)}

\* The MCP tool is called and the model answers.
GInitMcp ==
    /\ program = "mcp_server"
    /\ gpc = "called"
    /\ response \in McpResponses
    /\ archetype = ""
    /\ direction = 0
    /\ phase = 0
    /\ attempt = 0
    /\ asked = 0
    /\ trace = <<>>
    /\ faults = 0
    /\ frames3 = Pending
    /\ all_frames = <<>>
    /\ gout = Pending

\* generate_character_animation runs to its end.
GenerateCharacterAnimation ==
    /\ program = "mcp_server"
    /\ gpc = "called"
    /\ gout' = generate_character_animation(response)
    /\ trace' = Append(trace, "request")
    /\ gpc' = "done"
    /\ UNCHANGED <<program, response, archetype, direction, phase, attempt,
                   asked, frames3, all_frames, faults, nvars, rvars, mvars>>

(***************************************************************************)
(* generate_3_frames and generate_all_frames, generate_robust.py.          *)
(***************************************************************************)

\* max_retries: int = 3, the value every call uses.
max_retries == 3

\* directions = ["down", "up", "left", "right"]
directions == <<"down", "up", "left", "right">>

\* A loop that runs once more than range(n) does.
range_has_next_mut_inclusive(i, n) == i <= n

\* for attempt in range(max_retries): is there a next iteration after i?
range_has_next(i, n) == i < n

\* `continue`: the iteration ends without a result.
Retry == [exc |-> "retry", val |-> <<>>]

\* return None
ReturnNone == [exc |-> "none", val |-> <<>>]

\* A test that never finds the frames identical.
all_identical_mut_never(f0, f1, f2) == FALSE

\* frames["f0"] == frames["f1"] == frames["f2"]
all_identical(f0, f1, f2) == f0 = f1 /\ f1 = f2

\* Lines 144-160: the try block.  Any exception in it is caught and the
\* iteration ends; identical frames end it too.
try_frames(data) ==
    IF data.kind # "object" THEN Retry   \* data["f0"] of an array or a string
    ELSE
        The({IF f0.exc # "none" \/ f1.exc # "none" \/ f2.exc # "none" THEN Retry
             ELSE IF all_identical(f0.val, f1.val, f2.val) THEN Retry
             ELSE Return(<<[name |-> "f0", lines |-> f0.val],
                           [name |-> "f1", lines |-> f1.val],
                           [name |-> "f2", lines |-> f2.val]>>) :
                <<f0, f1, f2>> \in
                    {fix_frame_robust(GetFrame(data.frames, "f0"))}
                    \X {fix_frame_robust(GetFrame(data.frames, "f1"))}
                    \X {fix_frame_robust(GetFrame(data.frames, "f2"))}})

\* Lines 137-164: what one iteration does with the answer to its request:
\* return the frames, go on with the loop, or raise.
handle_response(data) ==
    IF data.kind = "failed" THEN Retry                   \* if not response
    \* parse_json_response gave None, or a value that is falsy
    ELSE IF data.kind \in {"blank", "not_json", "falsy"} THEN Retry
    ELSE IF data.kind = "number" THEN Raise("TypeError")  \* "f0" in 5
    ELSE IF InData("f0", data) /\ InData("f1", data) /\ InData("f2", data)
    THEN try_frames(data)
    ELSE IF data.kind = "object" THEN Retry      \* its keys are printed
    ELSE Raise("AttributeError")                 \* data.keys() of a list or str

\* fallback = [" " * 16] * 16
fallback == PyRepeat(PyRepeat(" ", 16), 16)

\* Lines 196-209: the three frames of a direction, named, from what
\* generate_3_frames returned.
named_frames(d, got) ==
    [i \in 1..3 |->
        [name |-> "walk_" \o directions[d + 1] \o "_" \o ToString(i - 1),
         lines |-> IF got.val # <<>> THEN got.val[i].lines ELSE fallback]]

\* all_frames[name] = lines, for each item: a new key is appended.
RECURSIVE DictUpdate(_, _)
DictUpdate(fs, items) ==
    IF items = <<>> THEN fs
    ELSE DictUpdate(
            IF HasFrame(fs, items[1].name)
            THEN [k \in 1..Len(fs) |->
                    IF fs[k].name = items[1].name THEN items[1] ELSE fs[k]]
            ELSE Append(fs, items[1]),
            Tail(items))

(***************************************************************************)
(* The answers the model hands to generate_3_frames.                       *)
(***************************************************************************)

\* Raw frames: two drawings, the first again with a trailing space, the
\* empty list, and a list with a null in it.
RobustRaw ==
    [a |-> << <<"@", "@">> >>,
     a2 |-> << <<"@", "@", " ">> >>,
     b |-> << <<"#">>, <<"#", "#">> >>,
     e |-> <<>>,
     n |-> << <<"@">>, PyNone >>]

RobustTriples ==
    {<<"a", "b", "a">>, <<"a", "a", "b">>, <<"b", "e", "a">>,
     <<"a", "a", "a">>, <<"a", "a2", "a">>, <<"e", "e", "e">>,
     <<"n", "a", "b">>, <<"a", "b", "n">>}

RobustResponses ==
    {Response(kind, <<>>, FALSE, <<>>) :
        kind \in {"failed", "blank", "not_json", "falsy", "number"}}
    \cup {Response(kind, m, FALSE, <<>>) :
            kind \in {"array", "string"}, m \in {<<"f0">>, <<"f0", "f1", "f2">>}}
    \cup {Response("object", <<"f0", "f1">>, FALSE,
                   <<[name |-> "f0", lines |-> RobustRaw.a],
                     [name |-> "f1", lines |-> RobustRaw.b]>>)}
    \cup {Response("object", <<"f0", "f1", "f2">>, FALSE,
                   <<[name |-> "f0", lines |-> RobustRaw[t[1]]],
                     [name |-> "f1", lines |-> RobustRaw[t[2]]],
                     [name |-> "f2", lines |-> RobustRaw[t[3]]]>>) :
            t \in RobustTriples}

\* generate_all_frames of generate_robust.py is called.
GInitRobust ==
    /\ program = "generate_robust"
    /\ gpc = "loop"
    /\ response = NoResponse
    /\ archetype = ""
    /\ direction = 0
    /\ phase = 0
    /\ attempt = 0
    /\ asked = 0
    /\ trace = <<>>
    /\ faults = 0
    /\ frames3 = Pending
    /\ all_frames = <<>>
    /\ gout = Pending

\* An iteration of the retry loop begins: call_ollama is awaited and the
\* model answers.
CallOllama ==
    /\ program = "generate_robust"
    /\ gpc = "loop"
    /\ direction < Len(directions)
    /\ range_has_next(attempt, max_retries)
    /\ attempt' = attempt + 1
    /\ asked' = asked + 1
    /\ trace' = Append(trace, "request")
    /\ response' \in RobustResponses
    /\ gpc' = "answered"
    /\ UNCHANGED <<program, archetype, direction, phase, frames3, all_frames,
                   gout, faults, nvars, rvars, mvars>>

\* The rest of the iteration: the answer is accepted and returned, or the
\* loop goes on, or an exception leaves generate_3_frames and with it
\* generate_all_frames.
HandleResponse ==
    /\ program = "generate_robust"
    /\ gpc = "answered"
    /\ \E r \in {handle_response(response)} :
        \/ /\ r.exc = "none"
           /\ frames3' = r
           /\ gpc' = "returned"
           /\ gout' = gout
        \/ /\ r.exc = "retry"
           /\ frames3' = frames3
           /\ gpc' = "loop"
           /\ gout' = gout
        \/ /\ r.exc \notin {"none", "retry"}
           /\ frames3' = r
           /\ gpc' = "done"
           /\ gout' = r
    /\ UNCHANGED <<program, response, archetype, direction, phase, attempt,
                   asked, trace, all_frames, faults, nvars, rvars, mvars>>

\* The retry loop is exhausted: return None.
GiveUp ==
    /\ program = "generate_robust"
    /\ gpc = "loop"
    /\ direction < Len(directions)
    /\ ~range_has_next(attempt, max_retries)
    /\ frames3' = ReturnNone
    /\ gpc' = "returned"
    /\ UNCHANGED <<program, response, archetype, direction, phase, attempt,
                   asked, trace, all_frames, gout, faults, nvars, rvars, mvars>>

\* generate_all_frames stores the three frames, or the fallback, and goes
\* to the next direction.
StoreDirection ==
    /\ program = "generate_robust"
    /\ gpc = "returned"
    /\ all_frames' = DictUpdate(all_frames, named_frames(direction, frames3))
    /\ direction' = direction + 1
    /\ attempt' = 0
    /\ asked' = 0
    /\ gpc' = "loop"
    /\ UNCHANGED <<program, response, archetype, phase, trace, frames3, gout,
                   faults, nvars, rvars, mvars>>

\* After the last direction the result is saved and returned.
FinishRobust ==
    /\ program = "generate_robust"
    /\ gpc = "loop"
    /\ direction = Len(directions)
    /\ gout' = Return(all_frames)
    /\ gpc' = "done"
    /\ UNCHANGED <<program, response, archetype, direction, phase, attempt,
                   asked, trace, frames3, all_frames, faults, nvars, rvars, mvars>>

(***************************************************************************)
(* generate_complete, generate_improved.py: a base character, its four     *)
(* rotations, then the walk frames of each direction.                      *)
(***************************************************************************)

\* The most answers without a usable frame in one run of a pipeline.
MaxFaults == 1

\* What a step makes of data[key]: call_openrouter raised ValueError, the
\* key is not there, or fix_frame's result.
improved_frame(data, key) ==
    IF data.kind = "error" THEN Raise("ValueError")
    ELSE IF ~InData(key, data) THEN Raise("KeyError")
    ELSE fix_frame_improved(GetFrame(data.frames, key))

\* The first of a list of results that raised, the last if none did.
RECURSIVE FirstRaised(_)
FirstRaised(rs) ==
    IF Len(rs) = 1 \/ rs[1].exc # "none" THEN rs[1] ELSE FirstRaised(Tail(rs))

\* An object that holds a frame under each of the keys.
FramesObject(keys, lines) ==
    Response("object", keys, FALSE, [k \in 1..Len(keys) |-> [name |-> keys[k], lines |-> lines]])

\* The answers without a usable frame to a request that asks for frames
\* under `keys`: the request fails, the last key is missing, a frame has a
\* null line.
FaultyAnswers(keys) ==
    {Response("error", <<>>, FALSE, <<>>),
     FramesObject(PySliceTo(keys, Len(keys) - 1), RobustRaw.a),
     FramesObject(keys, RobustRaw.n)}

\* The answers to such a request: a faulty one while the run has had fewer
\* than MaxFaults of them, or an object with a frame under each key.
PipelineAnswers(keys) ==
    {FramesObject(keys, RobustRaw.a)}
    \cup (IF faults < MaxFaults THEN FaultyAnswers(keys) ELSE {})

\* The answer is one of the faulty ones.
IsFaulty(data, keys) == data \in FaultyAnswers(keys)

\* generate_complete is called.
GInitImproved ==
    /\ program = "generate_improved"
    /\ gpc = "step1"
    /\ response = NoResponse
    /\ archetype = ""
    /\ direction = 0
    /\ phase = 0
    /\ attempt = 0
    /\ asked = 0
    /\ trace = <<>>
    /\ faults = 0
    /\ frames3 = Return(<<>>)
    /\ all_frames = <<>>
    /\ gout = Pending

\* step1_base_character: one request, base = fix_frame(data["base_frame"]).
Step1BaseCharacter ==
    /\ program = "generate_improved"
    /\ gpc = "step1"
    /\ response' \in PipelineAnswers(<<"base_frame">>)
    /\ trace' = Append(trace, "request")
    /\ faults' = faults + (IF IsFaulty(response', <<"base_frame">>) THEN 1 ELSE 0)
    /\ \E r \in {improved_frame(response', "base_frame")} :
        IF r.exc = "none" THEN gpc' = "step2" /\ gout' = gout
        ELSE gpc' = "done" /\ gout' = Raise(r.exc)
    /\ UNCHANGED <<program, archetype, direction, phase, attempt, asked,
                   frames3, all_frames, nvars, rvars, mvars>>

\* step2_rotations: one request, the four rotations fixed in the order
\* down, up, left, right.
Step2Rotations ==
    /\ program = "generate_improved"
    /\ gpc = "step2"
    /\ response' \in PipelineAnswers(directions)
    /\ trace' = Append(trace, "request")
    /\ faults' = faults + (IF IsFaulty(response', directions) THEN 1 ELSE 0)
    /\ \E r \in {FirstRaised([k \in 1..Len(directions) |->
                                improved_frame(response', directions[k])])} :
        IF r.exc = "none" THEN gpc' = "step3" /\ gout' = gout
        ELSE gpc' = "done" /\ gout' = Raise(r.exc)
    /\ UNCHANGED <<program, archetype, direction, phase, attempt, asked,
                   frames3, all_frames, nvars, rvars, mvars>>

\* step3_animate_direction, lines 215-283: the request for one walk frame
\* of the direction and frames[phase] = fix_frame(data["frame"]).  After
\* phase 0 and 1 the delay follows; after phase 2 the function returns and
\* generate_complete names the three frames.
Step3Frame ==
    /\ program = "generate_improved"
    /\ gpc = "step3"
    /\ direction < Len(directions)
    /\ response' \in PipelineAnswers(<<"frame">>)
    /\ trace' = Append(trace, "request")
    /\ faults' = faults + (IF IsFaulty(response', <<"frame">>) THEN 1 ELSE 0)
    /\ \E r \in {improved_frame(response', "frame")} :
        IF r.exc # "none"
        THEN /\ gpc' = "done"
             /\ gout' = Raise(r.exc)
             /\ UNCHANGED <<direction, phase, frames3, all_frames>>
        ELSE IF phase < 2
        THEN /\ gpc' = "sleep"
             /\ frames3' = Return(Append(frames3.val,
                                         [name |-> ToString(phase), lines |-> r.val]))
             /\ UNCHANGED <<direction, phase, all_frames, gout>>
        ELSE /\ gpc' = "step3"
             /\ all_frames' =
                    DictUpdate(all_frames,
                        [k \in 1..(Len(frames3.val) + 1) |->
                            [name |-> "walk_" \o directions[direction + 1] \o "_"
                                        \o ToString(k - 1),
                             lines |-> Append(frames3.val,
                                              [name |-> ToString(phase),
                                               lines |-> r.val])[k].lines]])
             /\ frames3' = Return(<<>>)
             /\ direction' = direction + 1
             /\ phase' = 0
             /\ gout' = gout
    /\ UNCHANGED <<program, archetype, attempt, asked, nvars, rvars, mvars>>

\* if phase < 2: await asyncio.sleep(0.5)
Step3Sleep ==
    /\ program = "generate_improved"
    /\ gpc = "sleep"
    /\ trace' = Append(trace, "sleep")
    /\ phase' = phase + 1
    /\ gpc' = "step3"
    /\ UNCHANGED <<program, response, archetype, direction, attempt, asked,
                   frames3, all_frames, gout, faults, nvars, rvars, mvars>>

\* generate_complete saves the result and returns it.
FinishComplete ==
    /\ program = "generate_improved"
    /\ gpc = "step3"
    /\ direction = Len(directions)
    /\ gout' = Return(all_frames)
    /\ gpc' = "done"
    /\ UNCHANGED <<program, response, archetype, direction, phase, attempt,
                   asked, trace, frames3, all_frames, faults, nvars, rvars, mvars>>

(***************************************************************************)
(* generate_all_frames, generate_openrouter.py: a standing frame for each  *)
(* direction, then the walk frames; a delay after every request.           *)
(***************************************************************************)

\* generate_standing_frame and generate_walk_frame on the answer: any
\* exception is caught and the blank frame returned.
openrouter_frame(data) ==
    IF data.kind = "error" \/ ~InData("frame", data)
    THEN PyRepeat(PyRepeat(" ", 16), 16)
    ELSE generate_standing_frame(GetFrame(data.frames, "frame")).val

\* generate_all_frames is called.
GInitOpenrouter ==
    /\ program = "generate_openrouter"
    /\ gpc = "standing"
    /\ response = NoResponse
    /\ archetype = ""
    /\ direction = 0
    /\ phase = 0
    /\ attempt = 0
    /\ asked = 0
    /\ trace = <<>>
    /\ faults = 0
    /\ frames3 = Return(<<>>)
    /\ all_frames = <<>>
    /\ gout = Pending

\* base_frames[direction] = (await generate_standing_frame(...))["frame"]
StandingFrame ==
    /\ program = "generate_openrouter"
    /\ gpc = "standing"
    /\ response' \in PipelineAnswers(<<"frame">>)
    /\ trace' = Append(trace, "request")
    /\ faults' = faults + (IF IsFaulty(response', <<"frame">>) THEN 1 ELSE 0)
    /\ frames3' = Return(DictUpdate(frames3.val,
                            <<[name |-> directions[direction + 1],
                               lines |-> openrouter_frame(response')]>>))
    /\ gpc' = "standing_sleep"
    /\ UNCHANGED <<program, archetype, direction, phase, attempt, asked,
                   all_frames, gout, nvars, rvars, mvars>>

\* await asyncio.sleep(0.3), line 258, and the next direction.
StandingSleep ==
    /\ program = "generate_openrouter"
    /\ gpc = "standing_sleep"
    /\ trace' = Append(trace, "sleep")
    /\ IF direction + 1 < Len(directions)
       THEN direction' = direction + 1 /\ gpc' = "standing"
       ELSE direction' = 0 /\ gpc' = "walk"
    /\ UNCHANGED <<program, response, archetype, phase, attempt, asked,
                   frames3, all_frames, gout, faults, nvars, rvars, mvars>>

\* all_frames[frame_name] = (await generate_walk_frame(...))["frame"]
WalkFrame ==
    /\ program = "generate_openrouter"
    /\ gpc = "walk"
    /\ direction < Len(directions)
    /\ response' \in PipelineAnswers(<<"frame">>)
    /\ trace' = Append(trace, "request")
    /\ faults' = faults + (IF IsFaulty(response', <<"frame">>) THEN 1 ELSE 0)
    /\ all_frames' = DictUpdate(all_frames,
                        <<[name |-> "walk_" \o directions[direction + 1] \o "_"
                                      \o ToString(phase),
                           lines |-> openrouter_frame(response')]>>)
    /\ gpc' = "walk_sleep"
    /\ UNCHANGED <<program, archetype, direction, phase, attempt, asked,
                   frames3, gout, nvars, rvars, mvars>>

\* await asyncio.sleep(0.3), line 274, and the next phase or direction.
WalkSleep ==
    /\ program = "generate_openrouter"
    /\ gpc = "walk_sleep"
    /\ trace' = Append(trace, "sleep")
    /\ IF phase < 2
       THEN phase' = phase + 1 /\ direction' = direction
       ELSE phase' = 0 /\ direction' = direction + 1
    /\ gpc' = "walk"
    /\ UNCHANGED <<program, response, archetype, attempt, asked, frames3,
                   all_frames, gout, faults, nvars, rvars, mvars>>

\* The result is saved and returned.
FinishOpenrouter ==
    /\ program = "generate_openrouter"
    /\ gpc = "walk"
    /\ direction = Len(directions)
    /\ gout' = Return(all_frames)
    /\ gpc' = "done"
    /\ UNCHANGED <<program, response, archetype, direction, phase, attempt,
                   asked, trace, frames3, all_frames, faults, nvars, rvars, mvars>>

(***************************************************************************)
(* generate_enemy, generate_enemy.py.                                      *)
(***************************************************************************)

\* ENEMY_ARCHETYPES: the dict's items in order, with the fields
\* generate_enemy reads.
ENEMY_ARCHETYPES ==
    << [name |-> "scout_clanker", behavior |-> "aggressive_melee",
        health |-> 60, speed |-> 120, damage |-> 15],
       [name |-> "combat_clanker", behavior |-> "ranged_kiting",
        health |-> 100, speed |-> 70, damage |-> 25],
       [name |-> "heavy_clanker", behavior |-> "ferocious_charge",
        health |-> 200, speed |-> 40, damage |-> 40],
       [name |-> "repair_clanker", behavior |-> "persistent_hunter",
        health |-> 80, speed |-> 60, damage |-> 10] >>

\* key in ENEMY_ARCHETYPES
HasArchetype(a) == \E k \in 1..Len(ENEMY_ARCHETYPES) : ENEMY_ARCHETYPES[k].name = a

\* ENEMY_ARCHETYPES[key]
Archetype(a) ==
    ENEMY_ARCHETYPES[CHOOSE k \in 1..Len(ENEMY_ARCHETYPES) : ENEMY_ARCHETYPES[k].name = a]

\* The distinct lines of the mock frames, 11 to 13 characters each.
MockLines ==
    << <<" ", " ", " ", "[", "=", "=", "=", "]", " ", " ", " ">>,
       <<" ", " ", "/", " ", " ", " ", " ", " ", "\\", " ", " ">>,
       <<" ", "|", " ", " ", "o", " ", "o", " ", " ", "|", " ">>,
       <<" ", " ", "\\", " ", " ", "^", " ", " ", "/", " ", " ">>,
       <<" ", " ", " ", "|", "=", "=", "=", "|", " ", " ", " ">>,
       <<" ", "|", " ", " ", " ", " ", " ", " ", " ", "|", " ">>,
       <<" ", " ", "\\", " ", " ", " ", " ", " ", "/", " ", " ">>,
       <<" ", " ", " ", "=", "=", "=", "=", "=", " ", " ", " ">>,
       <<" ", " ", " ", " ", "|", "|", "|", " ", " ", " ", " ">>,
       <<" ", " ", " ", "/", " ", " ", " ", "\\", " ", " ", " ">>,
       <<" ", " ", "/", " ", "|", "|", "|", " ", "\\", " ", " ">>,
       <<" ", "|", " ", "|", " ", " ", " ", "|", " ", "|", " ">>,
       <<" ", " ", "\\", " ", "|", "|", "|", " ", "/", " ", " ">>,
       <<" ", "|", " ", "=", "=", "=", "=", "=", " ", "|", " ">>,
       <<" ", " ", "[", "=", "=", "=", "=", "=", "]", " ", " ">>,
       <<" ", "/", " ", " ", " ", " ", " ", " ", " ", "\\", " ">>,
       <<" ", " ", "/", "|", "|", "|", "|", "|", "\\", " ", " ">>,
       <<" ", "|", " ", "|", "|", "|", "|", "|", " ", "|", " ">>,
       <<" ", " ", "\\", "|", "|", "|", "|", "|", "/", " ", " ">>,
       <<" ", " ", " ", "=", "=", "=", "=", "=", "=", "=", " ">>,
       <<" ", " ", "/", " ", " ", " ", " ", " ", " ", " ", "\\", " ">>,
       <<" ", "|", " ", "=", "=", "=", "=", "=", "=", "=", " ", "|", " ">>,
       <<" ", " ", "\\", " ", " ", " ", " ", " ", " ", " ", "/", " ", " ">>,
       <<" ", " ", " ", "|", "|", "|", "|", "|", "|", "|", " ", " ">>,
       <<" ", " ", "\\", " ", " ", "+", " ", " ", "/", " ", " ">>,
       <<" ", " ", "/", " ", "+", "+", "+", " ", "\\", " ", " ">>,
       <<" ", "|", " ", "+", " ", " ", " ", "+", " ", "|", " ">>,
       <<" ", " ", "\\", " ", "+", "+", "+", " ", "/", " ", " ">>,
       <<" ", " ", " ", " ", "+", "+", "+", " ", " ", " ", " ">> >>

\* _generate_mock_response(prompt)["frames"]["idle"], by the word found in
\* the prompt: the lines of each mock frame as indices into MockLines.
mock_frame(word) ==
    LET rows ==
          CASE word = "scout" -> <<1, 2, 3, 4, 5, 2, 6, 7, 8, 2, 6, 7, 8, 9, 9, 10>>
            [] word = "combat" -> <<1, 2, 3, 4, 5, 11, 12, 13, 8, 2, 14, 7, 8, 9, 9, 10>>
            [] word = "heavy" -> <<15, 16, 3, 4, 5, 17, 18, 19, 20, 21, 22, 23, 20, 24, 24, 21>>
            [] word = "repair" -> <<1, 2, 3, 25, 5, 26, 27, 28, 8, 2, 14, 7, 8, 29, 29, 10>>
            [] OTHER -> <<1, 2, 3, 4, 5, 2, 6, 7, 8, 2, 14, 7, 8, 9, 9, 10>>
    IN  [i \in 1..Len(rows) |-> MockLines[rows[i]]]

\* The word of the archetype's prompt that _generate_mock_response finds
\* first among scout, combat, heavy, repair.
mock_word(a) ==
    CASE a = "scout_clanker"  -> "scout"
      [] a = "combat_clanker" -> "combat"
      [] a = "heavy_clanker"  -> "heavy"
      [] a = "repair_clanker" -> "repair"
      [] OTHER                -> "default"

\* call_openrouter, then data["frames"]["idle"]: the mock frame when there
\* is no API key or the request fails, else what the model sent (KeyError
\* if it sent no frames).
enemy_idle(a, data) ==
    IF data.kind \in {"mock", "error"} THEN Return(mock_frame(mock_word(a)))
    ELSE IF ~InData("frames", data) \/ ~HasFrame(data.frames, "idle")
    THEN Raise("KeyError")
    ELSE Return(GetFrame(data.frames, "idle"))

\* generate_enemy(archetype).  The default of .get(), ENEMY_ARCHETYPES
\* ["warrior"], is evaluated before .get() is called.
generate_enemy(a, data) ==
    IF ~HasArchetype("warrior") THEN Raise("KeyError")
    ELSE
        The({IF idle.exc # "none" THEN idle
             ELSE IF fixed0.exc # "none" THEN fixed0
             ELSE Return([stats |-> [archetype |-> a,
                                     health |-> enemy_data.health,
                                     speed |-> enemy_data.speed,
                                     damage |-> enemy_data.damage,
                                     behavior |-> enemy_data.behavior],
                          frames |-> <<[name |-> "idle", lines |-> fixed0.val]>>]) :
                <<enemy_data, idle, fixed0>> \in
                    {<<ed, i, IF i.exc = "none" THEN fix_frame_enemy(i.val) ELSE i>> :
                        <<ed, i>> \in
                            {IF HasArchetype(a) THEN Archetype(a) ELSE Archetype("warrior")}
                            \X {enemy_idle(a, data)}}})

\* What call_openrouter can come back with.
EnemyAnswers ==
    {Response("mock", <<>>, FALSE, <<>>),
     Response("error", <<>>, FALSE, <<>>),
     Response("object", <<"other">>, FALSE, <<>>),
     Response("object", <<"frames">>, TRUE, <<[name |-> "idle", lines |-> RobustRaw.a]>>),
     Response("object", <<"frames">>, TRUE, <<[name |-> "idle", lines |-> RobustRaw.n]>>),
     Response("object", <<"frames">>, TRUE, <<[name |-> "walk", lines |-> RobustRaw.b]>>)}

\* The archetypes given on the command line: the four of the table, the
\* one the default names, and one that is in neither.
EnemyArguments ==
    {ENEMY_ARCHETYPES[k].name : k \in 1..Len(ENEMY_ARCHETYPES)} \cup {"warrior", "goblin"}

\* generate_enemy is called; `response` is what call_openrouter will come
\* back with if it is reached.
GInitEnemy ==
    /\ program = "generate_enemy"
    /\ gpc = "called"
    /\ response \in EnemyAnswers
    /\ archetype \in EnemyArguments
    /\ direction = 0
    /\ phase = 0
    /\ attempt = 0
    /\ asked = 0
    /\ trace = <<>>
    /\ faults = 0
    /\ frames3 = Pending
    /\ all_frames = <<>>
    /\ gout = Pending

\* generate_enemy runs to its end; a request is made if line 240 is
\* reached and there is an API key.
GenerateEnemy ==
    /\ program = "generate_enemy"
    /\ gpc = "called"
    /\ gout' = generate_enemy(archetype, response)
    /\ trace' = IF HasArchetype("warrior") /\ response.kind # "mock"
                THEN Append(trace, "request") ELSE trace
    /\ gpc' = "done"
    /\ UNCHANGED <<program, response, archetype, direction, phase, attempt,
                   asked, faults, frames3, all_frames, nvars, rvars, mvars>>

GInit ==
    \/ GInitMcp
    \/ GInitRobust
    \/ GInitImproved
    \/ GInitOpenrouter
    \/ GInitEnemy

GNext ==
    \/ GenerateCharacterAnimation
    \/ CallOllama
    \/ HandleResponse
    \/ GiveUp
    \/ StoreDirection
    \/ FinishRobust
    \/ Step1BaseCharacter
    \/ Step2Rotations
    \/ Step3Frame
    \/ Step3Sleep
    \/ FinishComplete
    \/ StandingFrame
    \/ StandingSleep
    \/ WalkFrame
    \/ WalkSleep
    \/ FinishOpenrouter
    \/ GenerateEnemy

\* A run of a generator script.
GenInit == NIdle /\ RIdle /\ MIdle /\ GInit

SpecGen == GenInit /\ [][GNext]_vars

\* A run of the normalizer alone.
NormInit == NInit /\ RIdle /\ MIdle /\ GIdle

SpecNorm == NormInit /\ [][NNext]_vars

\* A run of the rasterizer alone.
RasterInit == NIdle /\ RInit /\ MIdle /\ GIdle

SpecRaster == RasterInit /\ [][RNext]_vars

\* A run of the command line of ascii_to_sprite.py.
MainInit == NIdle /\ MInit /\ GIdle

SpecMain == MainInit /\ [][MNext]_vars

(***************************************************************************)
(* Properties of the normalizer.                                           *)
(***************************************************************************)

\* Every item of the list is a str.
AllStr(lines) == \A i \in 1..Len(lines) : lines[i] # PyNone

\* An h x w grid of single characters.
IsFrame(f, h, w) ==
    /\ Len(f) = h
    /\ \A i \in 1..Len(f) : Len(f[i]) = w

CharsOf(lines) == {lines[i][j] : <<i, j>> \in
                      UNION {{<<i, j>> : j \in 1..Len(lines[i])} : i \in 1..Len(lines)}}

\* The side of the square the copy that ran is to produce.
Side == IF variant \in {"per_direction", "test_single"} THEN target_size ELSE FrameSize

\* C1: for every raw input (a list of str) each copy of fix_frame returns
\* exactly H rows of exactly W characters (H = W = 16 in the fixed copies,
\* H = W = target_size in the parameterised ones), and every character of the
\* result is a character of the input or the padding space.
C1_ShapeAndAlphabet ==
    (npc # "raw" /\ AllStr(raw)) =>
        /\ IsFrame(fixed, Side, Side)
        /\ CharsOf(fixed) \subseteq CharsOf(raw) \cup {" "}

\* C1 witness: a parameterised copy has cut a frame that was too high and
\* whose kept lines were too long.
C1_Witness ==
    /\ npc = "fixed"
    /\ variant = "per_direction"
    /\ AllStr(raw)
    /\ Len(raw) > target_size
    /\ \E i \in 1..target_size : Len(raw[i]) > target_size
    /\ IsFrame(fixed, target_size, target_size)

\* C2 (as claimed): normalization is idempotent: the copy that produced
\* `fixed`, given `fixed`, returns `fixed` again.
C2_Idempotent == npc = "refixed" => refixed = fixed

\* C3: on a list of str (empty, too short, too long, with lines too short or
\* too long) no copy of fix_frame raises, on the first call or on the second,
\* and what it returns is a non-empty rectangular grid.
C3_TotalOnStrings ==
    AllStr(raw) =>
        /\ exc = "none"
        /\ npc # "raw" =>
            /\ Len(fixed) >= 1
            /\ \A i \in 1..Len(fixed) : Len(fixed[i]) = Len(fixed[1])

\* C3 witness: generate_enemy's copy has returned for the empty input.
C3_Witness ==
    /\ npc = "fixed"
    /\ variant = "enemy"
    /\ raw = <<>>
    /\ exc = "none"
    /\ Len(fixed) = FrameSize

\* Pad on the right with spaces, or cut, to w characters.
C4_PadOrTruncate(s, w) == [j \in 1..w |-> IF j <= Len(s) THEN s[j] ELSE " "]

\* C4 (as claimed): in generate_improved and in generate_robust every kept
\* line is first stripped of its trailing whitespace and then padded or cut:
\* output row i is pad-or-truncate of the right-stripped input line i.
C4_StripThenFit ==
    (npc # "raw" /\ AllStr(raw) /\ variant \in {"improved", "robust"}) =>
        \A i \in 1..Min(Len(raw), FrameSize) :
            fixed[i] = C4_PadOrTruncate(PyRstrip(raw[i]), FrameSize)

\* C5: in the copies of generate_robust and generate_per_direction (and of
\* test_single_frame_fixed) a kept line shorter than W comes back unchanged
\* with spaces on its right up to W characters, and a kept line longer than W
\* comes back as its first W characters.
C5_WidthRule ==
    (npc # "raw" /\ AllStr(raw)
        /\ variant \in {"robust", "per_direction", "test_single"}) =>
        \A i \in 1..Min(Len(raw), Side) :
            /\ Len(fixed[i]) = Side
            /\ \A j \in 1..Side :
                fixed[i][j] = IF j <= Len(raw[i]) THEN raw[i][j] ELSE " "

\* C5 witness: generate_robust has padded a short line and cut a long one.
C5_Witness ==
    /\ npc = "fixed"
    /\ variant = "robust"
    /\ AllStr(raw)
    /\ \E i \in 1..Min(Len(raw), FrameSize) : Len(raw[i]) < FrameSize
    /\ \E i \in 1..Min(Len(raw), FrameSize) : Len(raw[i]) > FrameSize

\* C6: in generate_improved, for an input of n lines, output row i is the
\* width-normalized input line i for every i < min(n, 16), in the same order,
\* the lines after the 16th are dropped, and every row from n on is all
\* spaces; the empty input yields the all-space frame.
C6_HeightRule ==
    (npc # "raw" /\ AllStr(raw) /\ variant = "improved") =>
        /\ Len(fixed) = FrameSize
        /\ \A i \in 1..FrameSize :
            fixed[i] = IF i <= Len(raw) THEN fix_line_improved(raw[i])
                       ELSE [j \in 1..FrameSize |-> " "]

\* C6 witness: generate_improved has dropped the lines after the 16th.
C6_Witness ==
    /\ npc = "fixed"
    /\ variant = "improved"
    /\ AllStr(raw)
    /\ Len(raw) > FrameSize
    /\ Len(fixed) = FrameSize

IsCanonical(f) ==
    /\ Len(f) >= 1
    /\ Len(f[1]) >= 1
    /\ \A i \in 1..Len(f) : Len(f[i]) = Len(f[1])

\* A colour table entry of 6 or of 8 hex digits, after one optional '#'.
EntryDigits(v) == IF v # <<>> /\ v[1] = "#" THEN Tail(v) ELSE v

IsHexEntry(v, n) ==
    /\ Len(EntryDigits(v)) = n
    /\ \A i \in 1..n : EntryDigits(v)[i] \in HexDigits

\* The value of the k-th two-digit pair of an entry.
PairValue(v, k) == HexNumber(SubSeq(EntryDigits(v), 2 * k - 1, 2 * k))

\* No cell of the frame has a key whose entry is not 6 or 8 hex digits.
EntriesUsedValid(f) ==
    \A i \in 1..Len(f) : \A j \in 1..Len(f[i]) :
        f[i][j] \in DOMAIN color_map =>
            IsHexEntry(color_map[f[i][j]], 6) \/ IsHexEntry(color_map[f[i][j]], 8)

\* C8: rasterizing an H x W canonical frame at scale s >= 1 (by
\* convert_single_frame's ascii_to_image, and by create_sprite_sheet for
\* the frame it places at the sheet's origin) yields W*s x H*s pixels, pixel
\* (x, y) being the resolved colour of cell (row y div s, column x div s):
\* every cell is an s x s block of one colour, with no blending.
C8_NearestNeighbourBlocks ==
    /\ (rpc = "single" /\ IsCanonical(frames[subject].lines)
            /\ EntriesUsedValid(frames[subject].lines)) =>
        LET f == frames[subject].lines
        IN  /\ rexc = "none"
            /\ image.w = Len(f[1]) * scale
            /\ image.h = Len(f) * scale
            /\ DOMAIN image.px = (0..(image.w - 1)) \X (0..(image.h - 1))
            /\ \A p \in DOMAIN image.px :
                image.px[p] = CellColor(f[(p[2] \div scale) + 1][(p[1] \div scale) + 1],
                                        color_map)
    /\ (rpc = "sheet" /\ Len(frames) = 1 /\ frames[1].name = "walk_down_0"
            /\ IsCanonical(frames[1].lines) /\ EntriesUsedValid(frames[1].lines)) =>
        LET f == frames[1].lines
        IN  /\ rexc = "none"
            /\ \A x \in 0..(Len(f[1]) * scale - 1), y \in 0..(Len(f) * scale - 1) :
                image.px[<<x, y>>] =
                    CellColor(f[(y \div scale) + 1][(x \div scale) + 1], color_map)

\* C8 witness: a frame with two colours side by side has been rasterized
\* at a scale above 1.
C8_Witness ==
    /\ rpc = "single"
    /\ rexc = "none"
    /\ scale > 1
    /\ IsCanonical(frames[subject].lines)
    /\ Len(frames[subject].lines[1]) > 1
    /\ image.w = Len(frames[subject].lines[1]) * scale
    /\ image.px[<<0, 0>>] # image.px[<<scale, 0>>]

\* C9: in ascii_to_image a cell whose character is a key of the colour table
\* gets that entry's colour, a 6-digit entry as (R, G, B, 255) and an 8-digit
\* entry as (R, G, B, A); a cell whose character is not a key gets
\* (0, 0, 0, 0), and raises nothing.
C9_ColourResolution ==
    (rpc = "single" /\ IsCanonical(frames[subject].lines)
        /\ EntriesUsedValid(frames[subject].lines)) =>
        LET f == frames[subject].lines
        IN  /\ rexc = "none"
            /\ \A i \in 1..Len(f) : \A j \in 1..Len(f[1]) :
                LET c  == f[i][j]
                    px == image.px[<<(j - 1) * scale, (i - 1) * scale>>]
                IN  IF c \notin DOMAIN color_map THEN px = <<0, 0, 0, 0>>
                    ELSE IF IsHexEntry(color_map[c], 6)
                    THEN px = <<PairValue(color_map[c], 1), PairValue(color_map[c], 2),
                                PairValue(color_map[c], 3), 255>>
                    ELSE px = <<PairValue(color_map[c], 1), PairValue(color_map[c], 2),
                                PairValue(color_map[c], 3), PairValue(color_map[c], 4)>>

\* C9 witness: a frame with a cell of a 6-digit key and a cell of no key
\* has been rasterized.
C9_Witness ==
    /\ rpc = "single"
    /\ rexc = "none"
    /\ IsCanonical(frames[subject].lines)
    /\ \E i \in 1..Len(frames[subject].lines) :
        \E j, k \in 1..Len(frames[subject].lines[i]) :
            /\ frames[subject].lines[i][j] \in DOMAIN color_map
            /\ IsHexEntry(color_map[frames[subject].lines[i][j]], 6)
            /\ frames[subject].lines[i][k] \notin DOMAIN color_map
            /\ image.px[<<(k - 1) * scale, (i - 1) * scale>>] = <<0, 0, 0, 0>>

\* The named frames all have the dimensions h x w.
AllShare(h, w) ==
    \A k \in 1..Len(frames) :
        /\ Len(frames[k].lines) = h
        /\ \A i \in 1..h : Len(frames[k].lines[i]) = w

\* C10: the sheet create_sprite_sheet produces is (number of columns of the
\* layout) * W * scale wide and (number of rows of the layout) * H * scale
\* high, W and H being the dimensions all named frames share.
C10_SheetDimensions ==
    (rpc = "sheet" /\ rexc = "none") =>
        \A h \in 1..MaxSide, w \in 1..MaxSide :
            AllShare(h, w) =>
                /\ image.w = Len(frame_layout[1]) * w * scale
                /\ image.h = Len(frame_layout) * h * scale
                /\ DOMAIN image.px = (0..(image.w - 1)) \X (0..(image.h - 1))

\* C10 witness: a sheet has been made, above scale 1, of two frames that
\* share dimensions with more columns than rows.
C10_Witness ==
    /\ rpc = "sheet"
    /\ rexc = "none"
    /\ scale > 1
    /\ Len(frames) = 2
    /\ AllShare(1, 2)
    /\ image.w = Len(frame_layout[1]) * 2 * scale

\* The named frames are canonical frames of one shape, that of the first.
UniformFrames ==
    /\ frames # <<>>
    /\ IsCanonical(frames[1].lines)
    /\ AllShare(Len(frames[1].lines), Len(frames[1].lines[1]))

\* The sheet's pixels in the region of slot (r, c), from 1, for frames
\* h high and w wide: pixel (x, y) of the region |-> its colour.
SheetRegion(r, c, h, w) ==
    [p \in (0..(w * scale - 1)) \X (0..(h * scale - 1)) |->
        image.px[<<(c - 1) * w * scale + p[1], (r - 1) * h * scale + p[2]>>]]

\* C11: for every layout slot (row r, column c) naming a frame f of the
\* named frame set (canonical frames of one shape H x W), the sheet region
\* at offset (c*W*scale, r*H*scale) of size (W*scale) x (H*scale) is
\* pixel for pixel the rasterization of f at that scale.
C11_SlotHoldsItsFrame ==
    (rpc = "sheet" /\ rexc = "none" /\ UniformFrames) =>
        \A r \in 1..Len(frame_layout) : \A c \in 1..Len(frame_layout[r]) :
            HasFrame(frames, frame_layout[r][c]) =>
                LET f   == GetFrame(frames, frame_layout[r][c])
                    ras == ascii_to_image_scaled(f, color_map, scale)
                IN  /\ ras.exc = "none"
                    /\ ras.val.w = Len(f[1]) * scale
                    /\ ras.val.h = Len(f) * scale
                    /\ SheetRegion(r, c, Len(f), Len(f[1])) = ras.val.px

\* C11 witness: a sheet above scale 1 holds two different frames, the second
\* in a slot off the diagonal, and that slot's region is not transparent.
C11_Witness ==
    /\ rpc = "sheet"
    /\ rexc = "none"
    /\ scale > 1
    /\ UniformFrames
    /\ Len(frames) = 2
    /\ frames[1].name = "walk_down_0"
    /\ frames[2].name = "walk_down_1"
    /\ frames[1].lines # frames[2].lines
    /\ \E p \in DOMAIN SheetRegion(1, 2, Len(frames[2].lines), Len(frames[2].lines[1])) :
        SheetRegion(1, 2, Len(frames[2].lines), Len(frames[2].lines[1]))[p] # Transparent

\* C12 (as claimed): a slot naming a frame absent from the named frame set
\* is never an error: for every named frame set, the empty one included,
\* create_sprite_sheet completes, and each such slot's region is fully
\* transparent.
C12_AbsentFrameNeverAnError ==
    (rpc = "sheet"
        /\ \A k \in 1..Len(frames) :
            /\ IsCanonical(frames[k].lines)
            /\ EntriesUsedValid(frames[k].lines)
            /\ Len(frames[k].lines) = Len(frames[1].lines)
            /\ Len(frames[k].lines[1]) = Len(frames[1].lines[1])) =>
        /\ rexc = "none"
        /\ frames # <<>> =>
            \A r \in 1..Len(frame_layout) : \A c \in 1..Len(frame_layout[r]) :
                ~HasFrame(frames, frame_layout[r][c]) =>
                    \A p \in DOMAIN SheetRegion(r, c, Len(frames[1].lines),
                                                Len(frames[1].lines[1])) :
                        SheetRegion(r, c, Len(frames[1].lines),
                                    Len(frames[1].lines[1]))[p] = Transparent

C14_HexParse ==
    (rpc = "single" /\ IsCanonical(frames[subject].lines)
        /\ frames[subject].lines[1][1] \in DOMAIN color_map) =>
        LET v  == color_map[frames[subject].lines[1][1]]
            px == image.px[<<0, 0>>]
        IN  /\ Len(EntryDigits(v)) \notin {6, 8} => rexc = "ValueError"
            /\ (IsHexEntry(v, 6) /\ rexc = "none") =>
                /\ px = <<PairValue(v, 1), PairValue(v, 2), PairValue(v, 3), 255>>
                /\ \A k \in 1..4 : px[k] \in 0..255
            /\ (IsHexEntry(v, 8) /\ rexc = "none") =>
                /\ px = <<PairValue(v, 1), PairValue(v, 2), PairValue(v, 3),
                          PairValue(v, 4)>>
                /\ \A k \in 1..4 : px[k] \in 0..255

\* C15 (as claimed): an invalid entry of the colour table (a hex string
\* hex_to_rgba rejects) is reported as a format error for every key of the
\* table, whether or not the key occurs in a frame: no image is made from
\* a table with such an entry.
C15_InvalidEntryAlwaysReported ==
    (rpc \in {"single", "sheet"}
        /\ frames # <<>>
        /\ (\A k \in 1..Len(frames) : IsCanonical(frames[k].lines))
        /\ \E c \in DOMAIN color_map : hex_to_rgba(color_map[c]).exc # "none") =>
        rexc = "ValueError"

\* C16 (as claimed): the core operations mutate none of their inputs: no
\* step of a normalization (fix_frame, or the inline normalization of
\* generate_standing_frame) changes the raw line sequence it was given, nor
\* the named frame set, nor the colour table.
C16_InputsNotMutated ==
    [][raw' = raw /\ frames' = frames /\ color_map' = color_map]_vars

\* The rectangle create_sprite_sheet writes for the slot (r, c), from 1,
\* when it places the frame f: the paste offset and the size of the frame's
\* image (frame_width*scale x frame_height*scale once resized, the frame's
\* own size at scale 1), as <<x0, y0, w, h>>.
WrittenBox(r, c, f) ==
    LET fw  == Len(frames[1].lines[1])
        fh  == Len(frames[1].lines)
        off == PasteOffset(<<r - 1, c - 1>>, fw, fh, scale)
    IN  IF scale > 1 THEN <<off[1], off[2], fw * scale, fh * scale>>
        ELSE <<off[1], off[2], Len(f[1]), Len(f)>>

\* The pixels of a box.
BoxPixels(b) == (b[1]..(b[1] + b[3] - 1)) \X (b[2]..(b[2] + b[4] - 1))

\* The slots of the layout that name a frame of the set.
FilledSlots ==
    {s \in (1..Len(frame_layout)) \X (1..Len(frame_layout[1])) :
        HasFrame(frames, frame_layout[s[1]][s[2]])}

\* C17: in create_sprite_sheet the pixel regions written for two different
\* layout slots never overlap and lie inside the sheet, for every named
\* frame set (canonical frames of one shape) and every scale >= 1, so no
\* paste changes a pixel of another slot: each written region still holds
\* its own frame's pixels in the finished sheet.
C17_RegionsDisjointInsideSheet ==
    (rpc = "sheet" /\ rexc = "none" /\ UniformFrames) =>
        /\ \A s \in FilledSlots :
            LET f == GetFrame(frames, frame_layout[s[1]][s[2]])
                b == WrittenBox(s[1], s[2], f)
            IN  /\ BoxPixels(b) \subseteq DOMAIN image.px
                /\ \A p \in BoxPixels(b) :
                    image.px[p] =
                        CellColor(f[((p[2] - b[2]) \div scale) + 1]
                                   [((p[1] - b[1]) \div scale) + 1], color_map)
        /\ \A s, t \in FilledSlots :
            s # t =>
                BoxPixels(WrittenBox(s[1], s[2], GetFrame(frames, frame_layout[s[1]][s[2]])))
                \cap
                BoxPixels(WrittenBox(t[1], t[2], GetFrame(frames, frame_layout[t[1]][t[2]])))
                    = {}

\* C17 witness: two frames were pasted side by side above scale 1, the
\* second starting exactly where the first one's region ends.
C17_Witness ==
    /\ rpc = "sheet"
    /\ rexc = "none"
    /\ scale > 1
    /\ UniformFrames
    /\ FilledSlots = {<<1, 1>>, <<1, 2>>}
    /\ WrittenBox(1, 2, frames[2].lines)[1]
        = WrittenBox(1, 1, frames[1].lines)[1] + WrittenBox(1, 1, frames[1].lines)[3]

\* The same name-to-frame mapping inserted in the opposite order.
ReinsertedFrames == [k \in 1..Len(frames) |-> frames[Len(frames) + 1 - k]]

\* C18: the sheet does not depend on the insertion order of the named frame
\* set (canonical frames of one shape): the same mapping inserted in the
\* opposite order gives the same outcome, a sheet of the same dimensions
\* and the same pixels.
C18_InsertionOrderIrrelevant ==
    (rpc = "sheet" /\ UniformFrames) =>
        \A other \in {create_sprite_sheet(ReinsertedFrames, color_map, scale)} :
            /\ other.exc = rexc
            /\ rexc = "none" =>
                /\ other.val.w = image.w
                /\ other.val.h = image.h
                /\ other.val.px = image.px

\* C18 witness: a sheet was made of two different frames, both drawn, whose
\* order of insertion can be exchanged.
C18_Witness ==
    /\ rpc = "sheet"
    /\ rexc = "none"
    /\ UniformFrames
    /\ Len(frames) = 2
    /\ ReinsertedFrames # frames
    /\ frames[1].lines # frames[2].lines
    /\ FilledSlots = {<<1, 1>>, <<2, 1>>}
    /\ \E p \in DOMAIN image.px : image.px[p] # Transparent

\* The directions in the order the claim gives them.
C19_Directions == <<"down", "up", "left", "right">>

\* The name the claim puts in row r, column c, from 1.
C19_NameAt(r, c) ==
    IF r <= 4 THEN "walk_" \o C19_Directions[r] \o "_" \o ToString(c - 1)
    ELSE "idle_" \o C19_Directions[c] \o "_0"

\* C19: the default layout is 5 rows by 4 columns: rows 0-3 are walk_down,
\* walk_up, walk_left, walk_right with phases 0..3 in columns 0..3, row 4 is
\* idle_down_0, idle_up_0, idle_left_0, idle_right_0; and a sheet made of
\* one frame shows it in the slot the claim gives its name, and nowhere else.
C19_DefaultLayout ==
    /\ Len(frame_layout) = 5
    /\ \A r \in 1..5 :
        /\ Len(frame_layout[r]) = 4
        /\ \A c \in 1..4 : frame_layout[r][c] = C19_NameAt(r, c)
    /\ (rpc = "sheet" /\ rexc = "none" /\ UniformFrames /\ Len(frames) = 1) =>
        \A r \in 1..5 : \A c \in 1..4 :
            \A p \in DOMAIN SheetRegion(r, c, Len(frames[1].lines), Len(frames[1].lines[1])) :
                SheetRegion(r, c, Len(frames[1].lines), Len(frames[1].lines[1]))[p] =
                    IF frames[1].name = C19_NameAt(r, c)
                    THEN CellColor(frames[1].lines[(p[2] \div scale) + 1]
                                                  [(p[1] \div scale) + 1], color_map)
                    ELSE Transparent

\* C19 witness: a sheet of the one frame idle_right_0 shows it in row 4,
\* column 3.
C19_Witness ==
    /\ rpc = "sheet"
    /\ rexc = "none"
    /\ UniformFrames
    /\ Len(frames) = 1
    /\ frames[1].name = "idle_right_0"
    /\ \E p \in DOMAIN SheetRegion(5, 4, Len(frames[1].lines), Len(frames[1].lines[1])) :
        SheetRegion(5, 4, Len(frames[1].lines), Len(frames[1].lines[1]))[p] # Transparent

\* The frames and the colours they use are such that rasterizing cannot
\* fail: canonical frames of one shape, every used entry valid.
DataIsSound ==
    /\ UniformFrames
    /\ \A k \in 1..Len(frames) : EntriesUsedValid(frames[k].lines)

\* C20 (as claimed): run as `<input.json> --frames <output_dir> [scale]` the
\* script writes one image per named frame at the given scale (1 if none is
\* given), and run as `<input.json> <output.png> [scale]` it writes the
\* sprite sheet at the given scale (1 if none is given); neither raises.
C20_CommandLineContract ==
    /\ (rpc = "cli_frames" /\ DataIsSound /\ Len(argv) \in {4, 5}
            /\ (Len(argv) = 5 => argv[5] \in ScaleArgs)) =>
        /\ rexc = "none"
        /\ scale = IF Len(argv) = 5 THEN DecNumber(argv[5]) ELSE 1
        /\ Len(saved) = Len(frames)
        /\ \A k \in 1..Len(frames) :
            /\ saved[k].name = frames[k].name
            /\ saved[k].image.w = Len(frames[k].lines[1]) * scale
            /\ saved[k].image.h = Len(frames[k].lines) * scale
    /\ (rpc = "cli_sheet" /\ DataIsSound /\ Len(argv) \in {3, 4}
            /\ (Len(argv) = 4 => argv[4] \in ScaleArgs)) =>
        /\ rexc = "none"
        /\ scale = IF Len(argv) = 4 THEN DecNumber(argv[4]) ELSE 1
        /\ Len(saved) = 1
        /\ saved[1].image.w = 4 * Len(frames[1].lines[1]) * scale
        /\ saved[1].image.h = 5 * Len(frames[1].lines) * scale

(***************************************************************************)
(* Properties of the generator scripts.                                    *)
(***************************************************************************)

\* A str: a list of characters, no null and no number among its items.
IsStr(line) == \A i \in 1..Len(line) : line[i] \notin {"None", JsonNumber}

\* The animation data the claim lets through: an object with color_map and
\* frames, every required frame present, every frame 16 lines of 16
\* characters.
C21_Valid(data) ==
    /\ data.kind = "object"
    /\ InData("color_map", data)
    /\ InData("frames", data)
    /\ data.frames_is_dict
    /\ \A d \in {"down", "up", "left", "right"} :
        /\ HasFrame(data.frames, "idle_" \o d \o "_0")
        /\ \A i \in 0..3 : HasFrame(data.frames, "walk_" \o d \o "_" \o ToString(i))
    /\ \A k \in 1..Len(data.frames) :
        /\ Len(data.frames[k].lines) = 16
        /\ \A i \in 1..Len(data.frames[k].lines) :
            /\ IsStr(data.frames[k].lines[i])
            /\ Len(data.frames[k].lines[i]) = 16

\* C21: generate_character_animation returns the animation data only if it
\* holds color_map and frames, all 20 required frames, and every frame has
\* exactly 16 lines of exactly 16 characters; any other response ends in a
\* ValueError and no data.
C21_ReturnsOnlyValidAnimations ==
    (program = "mcp_server" /\ gpc = "done") =>
        IF C21_Valid(response)
        THEN gout.exc = "none" /\ gout.val = response
        ELSE gout.exc = "ValueError"

\* The call of generate_3_frames for the current direction is under way.
InRetryLoop == program = "generate_robust" /\ gpc \in {"loop", "answered"}

\* generate_3_frames: what is left of the retry loop, at most: two steps
\* (request, handling) for every iteration not yet begun, one if an answer
\* waits to be handled.
C22_Remaining ==
    2 * (max_retries - attempt) + (IF gpc = "answered" THEN 1 ELSE 0)

C22_Bounded ==
    program = "generate_robust" =>
        /\ asked <= max_retries
        /\ asked = attempt
        /\ C22_Remaining >= 0
        \* a further request is made only after a rejected answer
        /\ (gpc = "loop" /\ attempt > 0) => handle_response(response) = Retry
        \* the frames returned are those of the last answer
        /\ (gpc = "returned" /\ frames3 # ReturnNone) =>
                handle_response(response) = frames3
        \* None is returned after max_retries rejected answers, not before
        /\ (gpc = "returned" /\ frames3 = ReturnNone) =>
                /\ asked = max_retries
                /\ handle_response(response) = Retry
        \* the call is never stuck
        /\ gpc # "done" => ENABLED GNext

\* C22: generate_3_frames issues at most max_retries requests, stops at the
\* first answer that is accepted, returns None when max_retries answers
\* were rejected, and always terminates: every step of the retry loop
\* brings it nearer to its end.
C22_BoundedRetry ==
    /\ []C22_Bounded
    /\ [][(InRetryLoop /\ InRetryLoop') => C22_Remaining' < C22_Remaining]_vars

\* C22 witness: three answers were rejected and None is returned.
C22_Witness ==
    /\ program = "generate_robust"
    /\ gpc = "returned"
    /\ frames3 = ReturnNone
    /\ asked = 3
    /\ response.kind = "object"

\* The three frames of an answer are there and equal once normalized.
IdenticalAnswer(data) ==
    /\ data.kind = "object"
    /\ HasFrame(data.frames, "f0")
    /\ HasFrame(data.frames, "f1")
    /\ HasFrame(data.frames, "f2")
    /\ fix_frame_robust(GetFrame(data.frames, "f0")).exc = "none"
    /\ fix_frame_robust(GetFrame(data.frames, "f0")) =
            fix_frame_robust(GetFrame(data.frames, "f1"))
    /\ fix_frame_robust(GetFrame(data.frames, "f1")) =
            fix_frame_robust(GetFrame(data.frames, "f2"))

\* C23: generate_3_frames never returns three identical frames; an answer
\* whose three frames are identical is rejected and has used up one of the
\* max_retries attempts (after the last attempt None is returned).
C23_DuplicateRejected ==
    program = "generate_robust" =>
        /\ (frames3.exc = "none" /\ frames3 # ReturnNone) =>
                ~(/\ frames3.val[1].lines = frames3.val[2].lines
                  /\ frames3.val[2].lines = frames3.val[3].lines)
        /\ (gpc = "answered" /\ IdenticalAnswer(response)) =>
                /\ handle_response(response) = Retry
                /\ attempt >= 1
        /\ (gpc = "loop" /\ attempt = max_retries /\ IdenticalAnswer(response)) =>
                /\ ~ENABLED CallOllama
                /\ ENABLED GiveUp

\* C23 witness: the third answer had three frames that differ as text but
\* not once normalized; it was rejected and None is returned.
C23_Witness ==
    /\ program = "generate_robust"
    /\ gpc = "returned"
    /\ frames3 = ReturnNone
    /\ IdenticalAnswer(response)
    /\ GetFrame(response.frames, "f0") # GetFrame(response.frames, "f1")

\* C27: whatever the model answers (request failure, empty text, text that
\* is not JSON, JSON that is no object, an object with missing or
\* ill-typed f0/f1/f2), generate_3_frames returns an accepted frame set or
\* None: no exception leaves it.
C27_NoExceptionPropagates ==
    program = "generate_robust" => frames3.exc \in {"pending", "none"}

\* The names generate_all_frames is to end with, in order.
C28_Names ==
    [k \in 1..12 |-> "walk_" \o directions[((k - 1) \div 3) + 1] \o "_"
                        \o ToString((k - 1) % 3)]

\* C28: after any sequence of successful and failed direction generations
\* generate_all_frames ends with exactly the 12 frames walk_<dir>_<0..2>,
\* each 16 rows of 16 characters, and a direction whose generation failed
\* has three all-space frames.
C28_TwelveFrames ==
    program = "generate_robust" =>
        /\ gpc = "done" =>
            /\ gout.exc = "none"
            /\ Len(gout.val) = 12
            /\ \A k \in 1..12 :
                /\ gout.val[k].name = C28_Names[k]
                /\ IsFrame(gout.val[k].lines, 16, 16)
                /\ \A i \in 1..16 : IsStr(gout.val[k].lines[i])
        /\ (gpc = "loop" /\ attempt = 0 /\ direction > 0 /\ frames3 = ReturnNone) =>
            \A i \in 0..2 :
                GetFrame(all_frames, C28_Names[3 * (direction - 1) + i + 1]) =
                    PyRepeat(PyRepeat(" ", 16), 16)

\* The number of requests in a trace.
RECURSIVE Requests(_)
Requests(t) ==
    IF t = <<>> THEN 0
    ELSE (IF t[1] = "request" THEN 1 ELSE 0) + Requests(Tail(t))

\* C24: in the generation pipelines (generate_complete of
\* generate_improved.py, generate_all_frames of generate_openrouter.py) the
\* requests are issued one at a time and between every two consecutive
\* requests of a run there is a delay: no request follows another without
\* a sleep in between.
C24_DelayBetweenRequests ==
    program \in {"generate_improved", "generate_openrouter"} =>
        \A i \in 1..(Len(trace) - 1) :
            ~(trace[i] = "request" /\ trace[i + 1] = "request")

\* C25: a complete run of generate_complete has issued exactly 6 requests
\* (base character, rotations, one per direction) and returns the 12 frames
\* walk_<dir>_<0..2>.
C25_SixRequestsTwelveFrames ==
    (program = "generate_improved" /\ gpc = "done" /\ gout.exc = "none") =>
        /\ Requests(trace) = 6
        /\ Len(gout.val) = 12
        /\ \A k \in 1..12 : gout.val[k].name = C28_Names[k]

\* C26: for every archetype of ENEMY_ARCHETYPES generate_enemy completes
\* and returns an enemy whose stats are the archetype's entry and whose
\* idle frame is 16 x 16; with no API it uses the mock art.
C26_EveryArchetypeGenerates ==
    (/\ program = "generate_enemy"
     /\ gpc = "done"
     /\ HasArchetype(archetype)
     /\ response.kind \in {"mock", "error"}) =>
        /\ gout.exc = "none"
        /\ gout.val.stats = [archetype |-> archetype,
                             health |-> Archetype(archetype).health,
                             speed |-> Archetype(archetype).speed,
                             damage |-> Archetype(archetype).damage,
                             behavior |-> Archetype(archetype).behavior]
        /\ IsFrame(gout.val.frames[1].lines, 16, 16)

\* The copies of the normalizer.
C29_Copies ==
    {"improved", "enemy", "robust", "per_direction", "test_single", "openrouter"}

\* C29: all copies of the normalizer compute the same function: on every
\* raw input the copies with rstrip (generate_improved, generate_enemy),
\* those without (generate_robust, generate_per_direction, test_*) and the
\* inline code of generate_openrouter return the same 16 x 16 frame, the
\* one the copy that ran returned.
C29_AllCopiesAgree ==
    (npc = "fixed" /\ target_size = FRAME_SIZE) =>
        /\ exc = "none"
        /\ IsFrame(fixed, 16, 16)
        /\ \A v \in C29_Copies :
            /\ Apply(v, raw, FRAME_SIZE).exc = "none"
            /\ Apply(v, raw, FRAME_SIZE).val = fixed

\* The names in the sprite-sheet layout.
LayoutNames ==
    {frame_layout[r][c] : <<r, c>> \in (1..Len(frame_layout)) \X (1..Len(frame_layout[1]))}

\* The names the MCP generator requires.
RequiredNames == {expected_frames[k] : k \in 1..Len(expected_frames)}

\* generate_character_animation has returned the animation.
Accepted == program = "mcp_server" /\ gpc = "done" /\ gout.exc = "none"

\* C30 as stated: the required names are the layout's names, so every
\* accepted animation fills all 20 slots of the sheet and none of its
\* frames is left unplaced.
C30_NoFrameUnplaced ==
    /\ RequiredNames = LayoutNames
    /\ Accepted =>
        /\ Len(PlacedSlots(gout.val.frames, Len(frame_layout) * Len(frame_layout[1]))) = 20
        /\ \A k \in 1..Len(gout.val.frames) : gout.val.frames[k].name \in LayoutNames

\* C30, amended: the required names are the layout's 20 names, so every
\* accepted animation fills all 20 slots of the sheet; the frames it holds
\* under other names, which the generator accepts as well, are the ones
\* left unplaced.
C30_AllSlotsFilled ==
    /\ RequiredNames = LayoutNames
    /\ Cardinality(LayoutNames) = 20
    /\ Accepted =>
        /\ Len(PlacedSlots(gout.val.frames, Len(frame_layout) * Len(frame_layout[1]))) = 20
        /\ \A n \in LayoutNames : HasFrame(gout.val.frames, n)
        /\ \A k \in 1..Len(gout.val.frames) :
            gout.val.frames[k].name \notin LayoutNames <=>
                gout.val.frames[k].name \notin RequiredNames

\* C30 witness: an accepted animation with a 21st frame, attack_0.
C30_Witness ==
    /\ Accepted
    /\ Len(gout.val.frames) = 21
    /\ HasFrame(gout.val.frames, "attack_0")
    /\ \A k \in 1..21 : \A i \in 1..16 : IsStr(gout.val.frames[k].lines[i])

====
